---- MODULE Spec2Model ----
(***************************************************************************)
(* State-machine model of _claude_scripts/procedural/                      *)
(* generate_lvl0_wfc_tileset.py: the two CLI commands generate-mazes       *)
(* (BackroomsMazeGenerator) and subsample-tiles (subsample_maze_to_tiles,  *)
(* compute_compatibility_matrix, JSON export).                             *)
(*                                                                         *)
(* Python lists are TLA+ sequences (list[i] is seq[i+1]); numpy arrays and *)
(* dicts are functions; grid[y][x] is grid[y, x].  The program's lengths   *)
(* (128x128 grid, 8x8 tile, ...) are the scaled definitions GridSize,      *)
(* TileSize, ...; with the program's values the definitions are the code.  *)
(***************************************************************************)
EXTENDS Integers, Sequences, FiniteSets, TLC

VARIABLES
    command,        \* args.command dispatched by main()
    args,           \* parsed arguments: [count, seed, stride]
    pc,             \* position in the running command
    dir_exists,     \* the maze / output directory exists on disk
    npy_files,      \* the directory's *.npy files: file stem -> saved grid
    stdout,         \* what the command printed (message tags)
    \* ---- subsample_tiles_command / subsample_maze_to_tiles
    maze_files,     \* sorted(maze_dir.glob("*.npy")), as stems
    file_idx,       \* index of the maze file being sampled (for maze_file in ...)
    maze,           \* Maze128(name, grid) being sampled / returned by generate_maze
    tiles,          \* subsample_maze_to_tiles: local list of tiles
    tile_id,        \* subsample_maze_to_tiles: running tile index
    x, y,           \* subsample_maze_to_tiles: window offset (loop variables)
    all_tiles,      \* pooled tiles of all mazes
    compatibility,  \* result of compute_compatibility_matrix
    output_file,    \* content of args.output, or NoFile
    \* ---- generate_mazes_command / BackroomsMazeGenerator
    run,            \* which execution of generate-mazes this is: 1, then 2 (same
                    \* arguments again) or 3 (same seed, another --count)
    first_run,      \* the *.npy files the first execution wrote
    png_files,      \* stems of the *.png files written
    rng,            \* self.rng: state of the seeded stream
    maze_counter,   \* self.maze_counter
    self_rooms,     \* self.rooms, or NoRooms while the attribute is not set
    grid,           \* generate_maze: the grid being carved
    strategy,       \* generate_maze: the strategy drawn
    mazes_done,     \* generate_mazes_command: loop variable i
    loop_i,         \* iterations done of the running for-loop
    loop_n,         \* number of iterations of the running for-loop
    rooms,          \* _generate_varied_rooms: local list rooms
    stack,          \* _generate_maze_base: stack
    visited,        \* _generate_maze_base: visited
    block,          \* _fill_empty_areas_with_maze: index of the 16x16 block
    \* ---- textures/*/generate.py: the scripts that load an input image
    script,         \* the texture script that runs
    inputs,         \* the input images that exist on disk (names)
    assets,         \* the input images loaded so far (names)
    base,           \* the base texture in use: "", "file" or "procedural"
    asset_idx,      \* position in the list of inputs being worked through
    exception,      \* the exception that ended the script, or ""
    output_written, \* OUTPUT_PATH has been saved
    \* ---- scripts/serve_web.py: ThreadSupportHTTPRequestHandler, one request
    raw_requestline,  \* the request line received: [method, target, version, ...]
    request_version,  \* self.request_version
    self_command,     \* self.command
    code,             \* the status code of the response being sent, 0 if none
    headers_buffer,   \* self._headers_buffer: lines not yet flushed
    wfile,            \* what was written to the client, in order
    \* ---- textures/backrooms_wallpaper/generate.py: draw_thick_line_wrapped
    line_call,      \* arguments and locals of the call: x0, y0, x1, y1, thickness,
                    \* dx, dy, sx, sy, err, x, y
    img_array,      \* the pixels [y_coord, x_coord] set to color so far
    painted         \* the pixels assigned in the latest turn of the while loop

tileVars == <<maze_files, file_idx, tiles, tile_id, x, y, all_tiles, compatibility,
              output_file>>

genVars == <<run, first_run, png_files, rng, maze_counter, self_rooms, grid, strategy,
             mazes_done, loop_i, loop_n, rooms, stack, visited, block>>

texVars == <<script, inputs, assets, base, asset_idx, exception, output_written>>

httpVars == <<raw_requestline, request_version, self_command, code, headers_buffer, wfile>>

lineVars == <<line_call, img_array, painted>>

scriptVars == <<texVars, httpVars, lineVars>>

vars == <<command, args, pc, dir_exists, npy_files, stdout, maze, tileVars, genVars,
          scriptVars>>

-----------------------------------------------------------------------------
(* Bounds of the model *)

GridSize == 16      \* side of the grid (128 in the program)
TileSize == 4       \* side of a tile (8 in the program)
PoolSize == 5       \* maze files that may lie in the maze directory
MaxMazes == 2       \* most maze files in the directory in one run

(* Tile constants *)
FLOOR == 0
WALL == 1

Cells == 0 .. GridSize - 1
NoFile == [exists |-> FALSE]
NoMaze == [name |-> "", grid |-> <<>>]
EmptyDict == <<>>
NoRooms == <<"unset">>

-----------------------------------------------------------------------------
(* Python helpers *)

Min(a, b) == IF a < b THEN a ELSE b
Max(a, b) == IF a > b THEN a ELSE b

Digit(d) == <<"0", "1", "2", "3", "4", "5", "6", "7", "8", "9">>[d + 1]

RECURSIVE Str(_)
\* str(n) for n >= 0
Str(n) == IF n < 10 THEN Digit(n) ELSE Str(n \div 10) \o Digit(n % 10)

RECURSIVE ZeroPad(_, _)
ZeroPad(s, width) == IF Len(s) >= width THEN s ELSE ZeroPad("0" \o s, width)

\* f"{n:0{width}d}": at least width digits, zero filled, never truncated
FormatD(n, width) == ZeroPad(Str(n), width)

\* d[k] = v on a dict
DictSet(d, k, v) == (k :> v) @@ d

\* d.get(k, default)
DictGet(d, k, default) == IF k \in DOMAIN d THEN d[k] ELSE default

\* a[y0:y1, x0:x1].tolist() on a GridSize x GridSize array: a slice is clipped
\* to the array
Slice2D(a, y0, y1, x0, x1) ==
    LET ys == Min(y1, GridSize) - y0
        xs == Min(x1, GridSize) - x0
    IN  [r \in 1 .. Max(ys, 0) |-> [c \in 1 .. Max(xs, 0) |-> a[y0 + r - 1, x0 + c - 1]]]

-----------------------------------------------------------------------------
(* The maze directory offered to subsample-tiles *)

\* f"maze_{k:03d}"
MazeName(k) == "maze_" \o FormatD(k, 3)

\* The grid saved in pool file k: a fixed floor plan per file.
PoolGrid(k) ==
    [yy \in Cells, xx \in Cells |->
        IF ((xx \div 2) * (3 + k) + (yy \div 3) * (5 + 2 * k) + xx * yy * k) % 7 < 5
        THEN FLOOR ELSE WALL]

RECURSIVE SortedStems(_, _)
\* sorted(glob("*.npy")): the stems of files in ascending order; stems
\* maze_000, maze_001, ... sort as their numbers do
SortedStems(files, k) ==
    IF k >= PoolSize THEN << >>
    ELSE (IF MazeName(k) \in DOMAIN files THEN <<MazeName(k)>> ELSE << >>)
         \o SortedStems(files, k + 1)

-----------------------------------------------------------------------------
(* subsample_maze_to_tiles *)

Directions == <<"north", "south", "east", "west">>

\* Tile with east_edge and west_edge taken from the wrong columns
Tile_edges_swapped(m, id, px, py) ==
    LET pattern == Slice2D(m.grid, py, py + TileSize, px, px + TileSize)
    IN  [name |-> m.name \o "_tile_" \o FormatD(id, 4),
         source_maze |-> m.name,
         source_position |-> <<px, py>>,
         pattern |-> pattern,
         edges |-> [north |-> pattern[1], south |-> pattern[TileSize],
                    east |-> [r \in 1 .. Len(pattern) |-> pattern[r][1]],
                    west |-> [r \in 1 .. Len(pattern) |-> pattern[r][TileSize]]],
         weight |-> 1]

\* Tile with source_position recorded as [y, x]
Tile_position_yx(m, id, px, py) ==
    LET pattern == Slice2D(m.grid, py, py + TileSize, px, px + TileSize)
    IN  [name |-> m.name \o "_tile_" \o FormatD(id, 4),
         source_maze |-> m.name,
         source_position |-> <<py, px>>,
         pattern |-> pattern,
         edges |-> [north |-> pattern[1], south |-> pattern[TileSize],
                    east |-> [r \in 1 .. Len(pattern) |-> pattern[r][TileSize]],
                    west |-> [r \in 1 .. Len(pattern) |-> pattern[r][1]]],
         weight |-> 1]

\* a tile cut with the two axes of the slice exchanged: grid[x:x+8, y:y+8]
Tile_axes_exchanged(m, id, px, py) ==
    LET pattern == Slice2D(m.grid, px, px + TileSize, py, py + TileSize)
        north_edge == pattern[1]
        south_edge == pattern[TileSize]
        east_edge == [r \in 1 .. Len(pattern) |-> pattern[r][TileSize]]
        west_edge == [r \in 1 .. Len(pattern) |-> pattern[r][1]]
    IN  [name |-> m.name \o "_tile_" \o FormatD(id, 4),
         source_maze |-> m.name,
         source_position |-> <<px, py>>,
         pattern |-> pattern,
         edges |-> [north |-> north_edge, south |-> south_edge,
                    east |-> east_edge, west |-> west_edge],
         weight |-> 1]

\* pattern[TileSize - 1] and row[TileSize - 1] are pattern[7], row[7] of the code
Tile(m, id, px, py) ==
    LET pattern == Slice2D(m.grid, py, py + TileSize, px, px + TileSize)
        north_edge == pattern[1]
        south_edge == pattern[TileSize]
        east_edge == [r \in 1 .. Len(pattern) |-> pattern[r][TileSize]]
        west_edge == [r \in 1 .. Len(pattern) |-> pattern[r][1]]
    IN  [name |-> m.name \o "_tile_" \o FormatD(id, 4),
         source_maze |-> m.name,
         source_position |-> <<px, py>>,
         pattern |-> pattern,
         edges |-> [north |-> north_edge, south |-> south_edge,
                    east |-> east_edge, west |-> west_edge],
         weight |-> 1]

\* the stop without the + 1: the last offset is lost
RangeStop_exclusive == GridSize - TileSize

\* stop of range(0, 128 - 8 + 1, stride)
RangeStop == GridSize - TileSize + 1

-----------------------------------------------------------------------------
(* compute_compatibility_matrix *)

RECURSIVE IndexTile_prepend(_, _, _)
\* the index build with the name put in front of the list
IndexTile_prepend(edge_index, tile, d) ==
    IF d > Len(Directions) THEN edge_index
    ELSE LET direction == Directions[d]
             edge == tile.edges[direction]
             old == DictGet(edge_index[direction], edge, << >>)
         IN  IndexTile_prepend([edge_index EXCEPT ![direction] =
                                    DictSet(@, edge, <<tile.name>> \o old)],
                               tile, d + 1)

RECURSIVE IndexTile_first_only(_, _, _)
\* the index build that creates the list of an edge and never appends to it
IndexTile_first_only(edge_index, tile, d) ==
    IF d > Len(Directions) THEN edge_index
    ELSE LET direction == Directions[d]
             edge == tile.edges[direction]
         IN  IndexTile_first_only(
                 [edge_index EXCEPT ![direction] =
                      IF edge \in DOMAIN @ THEN @ ELSE DictSet(@, edge, <<tile.name>>)],
                 tile, d + 1)

RECURSIVE IndexTile(_, _, _)
\* inner loop of the index build: for direction in [north, south, east, west]
IndexTile(edge_index, tile, d) ==
    IF d > Len(Directions) THEN edge_index
    ELSE LET direction == Directions[d]
             edge == tile.edges[direction]
             old == DictGet(edge_index[direction], edge, << >>)
         IN  IndexTile([edge_index EXCEPT ![direction] =
                            DictSet(@, edge, Append(old, tile.name))],
                       tile, d + 1)

RECURSIVE BuildEdgeIndex(_, _, _, _)
\* for tile in tiles: ... edge_index[direction][edge].append(name)
\* (the iterations lo..hi of the loop, in order)
BuildEdgeIndex(edge_index, ts, lo, hi) ==
    IF lo > hi THEN edge_index
    ELSE IF lo = hi THEN IndexTile(edge_index, ts[lo], 1)
    ELSE LET mid == (lo + hi) \div 2
             first == BuildEdgeIndex(edge_index, ts, lo, mid)
         IN  IF first = first    \* the earlier iterations are evaluated first
             THEN BuildEdgeIndex(first, ts, mid + 1, hi)
             ELSE first

\* the four assignments, each looking up the index of its own side
TileCompatibility_same_side(compat, edge_index, tile) ==
    LET name == tile.name
        c1 == DictSet(compat, name \o ":north",
                      DictGet(edge_index["north"], tile.edges["north"], << >>))
        c2 == DictSet(c1, name \o ":south",
                      DictGet(edge_index["south"], tile.edges["south"], << >>))
        c3 == DictSet(c2, name \o ":east",
                      DictGet(edge_index["east"], tile.edges["east"], << >>))
    IN  DictSet(c3, name \o ":west",
                DictGet(edge_index["west"], tile.edges["west"], << >>))

\* d[k] = v only for a non-empty v
DictSetNonEmpty(d, k, v) == IF v = << >> THEN d ELSE DictSet(d, k, v)

\* the four assignments, an empty list leaving no key
TileCompatibility_skip_empty(compat, edge_index, tile) ==
    LET name == tile.name
        c1 == DictSetNonEmpty(compat, name \o ":north",
                      DictGet(edge_index["south"], tile.edges["north"], << >>))
        c2 == DictSetNonEmpty(c1, name \o ":south",
                      DictGet(edge_index["north"], tile.edges["south"], << >>))
        c3 == DictSetNonEmpty(c2, name \o ":east",
                      DictGet(edge_index["west"], tile.edges["east"], << >>))
    IN  DictSetNonEmpty(c3, name \o ":west",
                DictGet(edge_index["east"], tile.edges["west"], << >>))

\* the four assignments of the second loop, for one tile
TileCompatibility(compat, edge_index, tile) ==
    LET name == tile.name
        c1 == DictSet(compat, name \o ":north",
                      DictGet(edge_index["south"], tile.edges["north"], << >>))
        c2 == DictSet(c1, name \o ":south",
                      DictGet(edge_index["north"], tile.edges["south"], << >>))
        c3 == DictSet(c2, name \o ":east",
                      DictGet(edge_index["west"], tile.edges["east"], << >>))
    IN  DictSet(c3, name \o ":west",
                DictGet(edge_index["east"], tile.edges["west"], << >>))

RECURSIVE BuildCompatibility(_, _, _, _, _)
\* for tile in tiles: compatibility[...] = ... (the iterations lo..hi, in order)
BuildCompatibility(compat, edge_index, ts, lo, hi) ==
    IF lo > hi THEN compat
    ELSE IF lo = hi THEN TileCompatibility(compat, edge_index, ts[lo])
    ELSE LET mid == (lo + hi) \div 2
             first == BuildCompatibility(compat, edge_index, ts, lo, mid)
         IN  IF first = first    \* the earlier iterations are evaluated first
             THEN BuildCompatibility(first, edge_index, ts, mid + 1, hi)
             ELSE first

compute_compatibility_matrix(ts) ==
    LET empty == [d \in {"north", "south", "east", "west"} |-> EmptyDict]
        edge_index == BuildEdgeIndex(empty, ts, 1, Len(ts))
    IN  BuildCompatibility(EmptyDict, edge_index, ts, 1, Len(ts))

-----------------------------------------------------------------------------
(* subsample-tiles: the command *)

\* strides tried: overlapping, touching, gapped, last offset, single tile
Strides == {TileSize \div 2, TileSize - 1, TileSize, TileSize + 1,
            GridSize - TileSize, GridSize - TileSize + 1}

\* an empty request line: no request has been read
NoRequest == [method |-> "", target |-> "", version |-> "", extra |-> FALSE,
              too_long |-> FALSE]

\* no call of draw_thick_line_wrapped is under way
NoLine == [x0 |-> 0, y0 |-> 0, x1 |-> 0, y1 |-> 0, thickness |-> 0,
           dx |-> 0, dy |-> 0, sx |-> 0, sy |-> 0, err |-> 0, x |-> 0, y |-> 0]

\* the variables of draw_thick_line_wrapped while another script runs
LineIdle ==
    /\ line_call = NoLine
    /\ img_array = {}
    /\ painted = {}

\* the variables of the texture scripts and of the web server while the
\* tileset script runs
ScriptsIdle ==
    /\ LineIdle
    /\ script = ""
    /\ inputs = {}
    /\ assets = {}
    /\ base = ""
    /\ asset_idx = 0
    /\ exception = ""
    /\ output_written = FALSE
    /\ raw_requestline = NoRequest
    /\ request_version = ""
    /\ self_command = ""
    /\ code = 0
    /\ headers_buffer = << >>
    /\ wfile = << >>

\* the generator's variables while another command runs
GenIdle ==
    /\ first_run = EmptyDict
    /\ png_files = {}
    /\ rng = 0
    /\ maze_counter = 0
    /\ self_rooms = NoRooms
    /\ grid = EmptyDict
    /\ strategy = ""
    /\ mazes_done = 0
    /\ loop_i = 0
    /\ loop_n = 0
    /\ rooms = << >>
    /\ stack = << >>
    /\ visited = {}
    /\ block = 0

InitTiles ==
    /\ command = "subsample-tiles"
    /\ \E s \in Strides : args = [count |-> 0, seed |-> 0, stride |-> s]
    /\ pc = "subsample_tiles_command"
    /\ \E e \in BOOLEAN, ks \in SUBSET (0 .. PoolSize - 1) :
          /\ Cardinality(ks) <= MaxMazes
          /\ e = FALSE => ks = {}
          /\ dir_exists = e
          /\ npy_files = [s \in {MazeName(k) : k \in ks} |->
                             PoolGrid(CHOOSE k \in ks : MazeName(k) = s)]
    /\ stdout = << >>
    /\ maze_files = << >>
    /\ file_idx = 0
    /\ maze = NoMaze
    /\ tiles = << >>
    /\ tile_id = 0
    /\ x = 0
    /\ y = 0
    /\ all_tiles = << >>
    /\ compatibility = EmptyDict
    /\ output_file = NoFile
    /\ GenIdle
    /\ run = 0
    /\ ScriptsIdle

\* lines 472-476 without the return: the command goes on with no maze file
MazeDirMissing_continue ==
    /\ pc = "subsample_tiles_command"
    /\ ~dir_exists
    /\ stdout' = Append(stdout, "ERROR: Maze directory not found")
    /\ maze_files' = << >>
    /\ all_tiles' = << >>
    /\ file_idx' = 1
    /\ pc' = "load_maze"
    /\ UNCHANGED <<genVars, scriptVars>>
    /\ UNCHANGED <<command, args, dir_exists, npy_files, maze, tiles, tile_id, x, y,
                   compatibility, output_file>>

\* lines 472-476: the maze directory does not exist
MazeDirMissing ==
    /\ pc = "subsample_tiles_command"
    /\ ~dir_exists
    /\ stdout' = Append(stdout, "ERROR: Maze directory not found")
    /\ pc' = "done"
    /\ UNCHANGED <<genVars, scriptVars>>
    /\ UNCHANGED <<command, args, dir_exists, npy_files, maze_files, file_idx, maze,
                   tiles, tile_id, x, y, all_tiles, compatibility, output_file>>

\* lines 484-487: no *.npy file in the directory
NoMazeFiles ==
    /\ pc = "subsample_tiles_command"
    /\ dir_exists
    /\ SortedStems(npy_files, 0) = << >>
    /\ maze_files' = << >>
    /\ stdout' = Append(stdout, "ERROR: No .npy files found")
    /\ pc' = "done"
    /\ UNCHANGED <<genVars, scriptVars>>
    /\ UNCHANGED <<command, args, dir_exists, npy_files, file_idx, maze,
                   tiles, tile_id, x, y, all_tiles, compatibility, output_file>>

\* lines 484-491: the files are listed, all_tiles = []
ListMazeFiles ==
    /\ pc = "subsample_tiles_command"
    /\ dir_exists
    /\ SortedStems(npy_files, 0) # << >>
    /\ maze_files' = SortedStems(npy_files, 0)
    /\ all_tiles' = << >>
    /\ file_idx' = 1
    /\ pc' = "load_maze"
    /\ UNCHANGED <<genVars, scriptVars>>
    /\ UNCHANGED <<command, args, dir_exists, npy_files, stdout, maze,
                   tiles, tile_id, x, y, compatibility, output_file>>

\* lines 492-497 and 363-367: the next maze is loaded and sampling starts
LoadMaze ==
    /\ pc = "load_maze"
    /\ file_idx <= Len(maze_files)
    /\ maze' = [name |-> maze_files[file_idx], grid |-> npy_files[maze_files[file_idx]]]
    /\ tiles' = << >>
    /\ tile_id' = 0
    /\ y' = 0
    /\ x' = 0
    /\ pc' = IF 0 < RangeStop THEN "sample" ELSE "return_tiles"
    /\ UNCHANGED <<genVars, scriptVars>>
    /\ UNCHANGED <<command, args, dir_exists, npy_files, stdout, maze_files, file_idx,
                   all_tiles, compatibility, output_file>>

\* SampleTile without tile_id += 1
SampleTile_no_increment ==
    /\ pc = "sample"
    /\ tiles' = Append(tiles, Tile(maze, tile_id, x, y))
    /\ tile_id' = tile_id
    /\ IF x + args.stride < RangeStop
       THEN /\ x' = x + args.stride
            /\ y' = y
            /\ pc' = "sample"
       ELSE IF y + args.stride < RangeStop
            THEN /\ x' = 0
                 /\ y' = y + args.stride
                 /\ pc' = "sample"
            ELSE /\ UNCHANGED <<x, y>>
                 /\ pc' = "return_tiles"
    /\ UNCHANGED <<genVars, scriptVars>>
    /\ UNCHANGED <<command, args, dir_exists, npy_files, stdout, maze_files, file_idx,
                   maze, all_tiles, compatibility, output_file>>

\* lines 367-390: one window; then the next x, or the next y with x back at 0
SampleTile ==
    /\ pc = "sample"
    /\ tiles' = Append(tiles, Tile(maze, tile_id, x, y))
    /\ tile_id' = tile_id + 1
    /\ IF x + args.stride < RangeStop
       THEN /\ x' = x + args.stride
            /\ y' = y
            /\ pc' = "sample"
       ELSE IF y + args.stride < RangeStop
            THEN /\ x' = 0
                 /\ y' = y + args.stride
                 /\ pc' = "sample"
            ELSE /\ UNCHANGED <<x, y>>
                 /\ pc' = "return_tiles"
    /\ UNCHANGED <<genVars, scriptVars>>
    /\ UNCHANGED <<command, args, dir_exists, npy_files, stdout, maze_files, file_idx,
                   maze, all_tiles, compatibility, output_file>>

\* lines 392 and 498: return tiles; all_tiles.extend(tiles)
ExtendTiles ==
    /\ pc = "return_tiles"
    /\ all_tiles' = all_tiles \o tiles
    /\ file_idx' = file_idx + 1
    /\ pc' = IF file_idx + 1 <= Len(maze_files) THEN "load_maze" ELSE "compute_compatibility"
    /\ UNCHANGED <<genVars, scriptVars>>
    /\ UNCHANGED <<command, args, dir_exists, npy_files, stdout, maze_files, maze,
                   tiles, tile_id, x, y, compatibility, output_file>>

\* line 507
ComputeCompatibility ==
    /\ pc = "compute_compatibility"
    /\ compatibility' = compute_compatibility_matrix(all_tiles)
    /\ pc' = "export"
    /\ UNCHANGED <<genVars, scriptVars>>
    /\ UNCHANGED <<command, args, dir_exists, npy_files, stdout, maze_files, file_idx,
                   maze, tiles, tile_id, x, y, all_tiles, output_file>>

\* lines 511-524: json.dump(output_data)
Export ==
    /\ pc = "export"
    /\ output_file' = [exists |-> TRUE,
                       tiles |-> all_tiles,
                       compatibility |-> compatibility,
                       metadata |-> [tile_count |-> Len(all_tiles),
                                     tile_size |-> TileSize,
                                     stride |-> args.stride,
                                     source_mazes |-> Len(maze_files)]]
    /\ stdout' = Append(stdout, "Tileset exported")
    /\ pc' = "done"
    /\ UNCHANGED <<genVars, scriptVars>>
    /\ UNCHANGED <<command, args, dir_exists, npy_files, maze_files, file_idx,
                   maze, tiles, tile_id, x, y, all_tiles, compatibility>>

NextTiles ==
    \/ MazeDirMissing
    \/ NoMazeFiles
    \/ ListMazeFiles
    \/ LoadMaze
    \/ SampleTile
    \/ ExtendTiles
    \/ ComputeCompatibility
    \/ Export

SpecTiles == InitTiles /\ [][NextTiles]_vars


-----------------------------------------------------------------------------
(* np.random.RandomState: a deterministic stream fixed by the seed.  The      *)
(* Mersenne Twister is stood for by a linear congruential generator modulo   *)
(* RngMod; a raw value u stands for the uniform variate u / RngMod.          *)

RngMod == 256       \* number of raw values of the stream
MaxSeed == 7        \* seeds 0 .. MaxSeed are tried
MaxCount == 2       \* --count 0 .. MaxCount is tried

\* one step of the stream
Lcg(s) == (37 * s + 11) % RngMod

\* RandomState(seed)
RandomState(seed) == (101 * seed + 7) % RngMod

RECURSIVE Adv(_, _)
\* the state after k draws
Adv(s, k) == IF k = 0 THEN s ELSE Adv(Lcg(s), k - 1)

\* the k-th raw value drawn from state s
Raw(s, k) == Adv(s, k)

\* rng.randint(low, high): low <= value < high
Randint(u, low, high) == low + (u * (high - low)) \div RngMod

\* rng.random() < num / den
RandomBelow(u, num, den) == u * den < num * RngMod

\* rng.choice(values, p=...): cdf holds the cumulated weights in percent;
\* the first value whose cumulated weight exceeds the variate
ChoiceP(u, values, cdf) ==
    values[CHOOSE k \in 1 .. Len(values) :
               /\ u * 100 < cdf[k] * RngMod
               /\ \A j \in 1 .. k - 1 : ~(u * 100 < cdf[j] * RngMod)]

\* rng.choice(n, size=2, replace=False): two different indices below n
ChoiceTwo(u1, u2, n) ==
    LET a == Randint(u1, 0, n)
        b == Randint(u2, 0, n - 1)
    IN  <<a, IF b >= a THEN b + 1 ELSE b>>

-----------------------------------------------------------------------------
(* Grid helpers *)

\* a length of the program on the scaled grid; the identity for GridSize = 128
Scaled(n) == Max(1, (n * GridSize) \div 128)

\* an exclusive upper length of the program on the scaled grid, rounded up
ScaledUp(n) == Max(2, (n * GridSize + 127) \div 128)

\* a cell count of the program on the scaled grid
ScaledArea(n) == Max(1, (n * GridSize * GridSize) \div (128 * 128))

InGrid(cy, cx) == 0 <= cy /\ cy < GridSize /\ 0 <= cx /\ cx < GridSize

\* np.full((128, 128), WALL)
AllWall == [c \in Cells \X Cells |-> WALL]

\* np.full((128, 128), FLOOR)
AllFloor == [c \in Cells \X Cells |-> FLOOR]

\* a write that marks the written cells with a third value
SetCells_marking(g, cs, v) == [c \in Cells \X Cells |-> IF c \in cs THEN v + 2 ELSE g[c]]

\* grid[cell] = v for every cell of cs
SetCells(g, cs, v) == [c \in Cells \X Cells |-> IF c \in cs THEN v ELSE g[c]]

\* np.sum(grid == FLOOR)
FloorCount(g) == Cardinality({c \in Cells \X Cells : g[c] = FLOOR})

\* grid[y0:y0+h, x0:x0+w]: the cells of the slice, clipped to the array
SliceCells(y0, h, x0, w) ==
    {<<cy, cx>> \in Cells \X Cells :
        /\ y0 <= cy /\ cy < y0 + h
        /\ x0 <= cx /\ cx < x0 + w}

-----------------------------------------------------------------------------
(* BackroomsMazeGenerator: carving *)

Strategies == <<"room_focused", "maze_focused", "hybrid">>

\* a variate taken from a source that --seed does not fix
StrategyDraw_unseeded(s) == 0 .. RngMod - 1

\* the variate of self.rng.choice([...strategies...]): the next value of the
\* generator's own stream
StrategyDraw(s) == {Raw(s, 1)}

\* size ranges of _generate_varied_rooms: [low, high) per category
RoomSizeRange(category) ==
    CASE category = "tiny" -> <<Scaled(3), Max(Scaled(3) + 1, ScaledUp(6))>>
      [] category = "small" -> <<Scaled(5), Max(Scaled(5) + 1, ScaledUp(10))>>
      [] category = "medium" -> <<Scaled(8), Max(Scaled(8) + 1, ScaledUp(16))>>
      [] category = "large" -> <<Scaled(12), Max(Scaled(12) + 1, ScaledUp(24))>>
      [] category = "huge" -> <<Scaled(20), Max(Scaled(20) + 1, ScaledUp(35))>>

\* a room placed anywhere it fits, without the margin of two cells
VariedRoom_no_margin(s) ==
    LET size_category == ChoiceP(Raw(s, 1),
                                 <<"tiny", "small", "medium", "large", "huge">>,
                                 <<15, 50, 80, 95, 100>>)
        range == RoomSizeRange(size_category)
        width == Randint(Raw(s, 2), range[1], range[2])
        height == Randint(Raw(s, 3), range[1], range[2])
    IN  [x |-> Randint(Raw(s, 4), 0, GridSize - width + 1),
         y |-> Randint(Raw(s, 5), 0, GridSize - height + 1),
         width |-> width,
         height |-> height]

\* one room of _generate_varied_rooms, drawn with the five values after state s:
\* [x, y, width, height]
VariedRoom(s) ==
    LET size_category == ChoiceP(Raw(s, 1),
                                 <<"tiny", "small", "medium", "large", "huge">>,
                                 <<15, 50, 80, 95, 100>>)
        range == RoomSizeRange(size_category)
        width == Randint(Raw(s, 2), range[1], range[2])
        height == Randint(Raw(s, 3), range[1], range[2])
    IN  [x |-> Randint(Raw(s, 4), 2, Max(3, GridSize - width - 2)),
         y |-> Randint(Raw(s, 5), 2, Max(3, GridSize - height - 2)),
         width |-> width,
         height |-> height]

\* _carve_corridor with the ranges of both legs stopping one cell short of the
\* corner: the corner cell is carved by neither leg
CorridorCells_no_corner(s, x1, y1, x2, y2) ==
    LET width == ChoiceP(Raw(s, 1), <<1, 2, 3>>, <<70, 95, 100>>)
        xs == Min(x1, x2) .. Max(x1, x2)
        ys == Min(y1, y2) .. Max(y1, y2)
        ws == 0 .. width - 1
    IN  IF RandomBelow(Raw(s, 2), 1, 2)
        THEN {<<y1 + w, cx>> : w \in ws, cx \in xs \ {x2}}
                 \cup {<<cy, x2 + w>> : w \in ws, cy \in ys \ {y1}}
        ELSE {<<cy, x1 + w>> : w \in ws, cy \in ys \ {y2}}
                 \cup {<<y2 + w, cx>> : w \in ws, cx \in xs \ {x1}}

\* the cells _carve_corridor writes, for the two values drawn after state s
CorridorCells(s, x1, y1, x2, y2) ==
    LET width == ChoiceP(Raw(s, 1), <<1, 2, 3>>, <<70, 95, 100>>)
        xs == Min(x1, x2) .. Max(x1, x2)
        ys == Min(y1, y2) .. Max(y1, y2)
        ws == 0 .. width - 1
    IN  IF RandomBelow(Raw(s, 2), 1, 2)
        THEN \* horizontal first, along y1; then vertical, along x2
             {<<y1 + w, cx>> : w \in ws, cx \in xs} \cup {<<cy, x2 + w>> : w \in ws, cy \in ys}
        ELSE \* vertical first, along x1; then horizontal, along y2
             {<<cy, x1 + w>> : w \in ws, cy \in ys} \cup {<<y2 + w, cx>> : w \in ws, cx \in xs}

\* _carve_corridor: writes are guarded by 0 <= index < 128
carve_corridor(g, s, x1, y1, x2, y2) ==
    SetCells(g, {c \in CorridorCells(s, x1, y1, x2, y2) : InGrid(c[1], c[2])}, FLOOR)

\* directions of _generate_maze_base, as (dx, dy)
MazeDirections == <<<<0, -2>>, <<0, 2>>, <<-2, 0>>, <<2, 0>>>>

\* the neighbours two cells away without the test against the visited set
Neighbors_revisiting(cx, cy, seen) ==
    LET cand == [d \in 1 .. 4 |-> <<cx + MazeDirections[d][1], cy + MazeDirections[d][2],
                                     MazeDirections[d][1], MazeDirections[d][2]>>]
        Ok(n) == /\ 0 <= n[1] /\ n[1] < GridSize
                 /\ 0 <= n[2] /\ n[2] < GridSize
    IN  SelectSeq(cand, Ok)

\* unvisited neighbours of (cx, cy) two cells away: (nx, ny, dx, dy), in the
\* order of directions
Neighbors(cx, cy, seen) ==
    LET cand == [d \in 1 .. 4 |-> <<cx + MazeDirections[d][1], cy + MazeDirections[d][2],
                                     MazeDirections[d][1], MazeDirections[d][2]>>]
        Ok(n) == /\ 0 <= n[1] /\ n[1] < GridSize
                 /\ 0 <= n[2] /\ n[2] < GridSize
                 /\ <<n[1], n[2]>> \notin seen
    IN  SelectSeq(cand, Ok)

\* dx // 2: the floor of the quotient
FloorDiv2(d) == d \div 2

\* side of a block of _fill_empty_areas_with_maze (16 in the program)
BlockSize == Max(2, Scaled(16))

\* blocks per axis: len(range(0, 128, 16))
BlocksPerAxis == (GridSize + BlockSize - 1) \div BlockSize

\* the cells one segment of _carve_mini_maze writes, for the four values drawn
\* after state s
MiniMazeCells(s, start_x, start_y, width, height) ==
    LET x1 == start_x + Randint(Raw(s, 1), 0, width - 1)
        y1 == start_y + Randint(Raw(s, 2), 0, height - 1)
        length == Randint(Raw(s, 3), 2, 6)
    IN  IF RandomBelow(Raw(s, 4), 1, 2)
        THEN {c \in {<<y1, x1 + dx>> : dx \in 0 .. length - 1} : InGrid(c[1], c[2])}
        ELSE {c \in {<<y1 + dy, x1>> : dy \in 0 .. length - 1} : InGrid(c[1], c[2])}

-----------------------------------------------------------------------------
(* generate-mazes: the command and generate_maze *)

InitGen ==
    /\ command = "generate-mazes"
    /\ \E seed \in 0 .. MaxSeed, count \in 0 .. MaxCount :
          args = [count |-> count, seed |-> seed, stride |-> 0]
    /\ pc = "generate_mazes_command"
    /\ dir_exists = FALSE
    /\ npy_files = EmptyDict
    /\ stdout = << >>
    /\ maze = NoMaze
    /\ maze_files = << >>
    /\ file_idx = 0
    /\ tiles = << >>
    /\ tile_id = 0
    /\ x = 0
    /\ y = 0
    /\ all_tiles = << >>
    /\ compatibility = EmptyDict
    /\ output_file = NoFile
    /\ GenIdle
    /\ run = 1
    /\ ScriptsIdle

\* what a step of the generator leaves alone
GenFrame == UNCHANGED <<command, args, tileVars, run, first_run, scriptVars>>

\* a generator whose seed is mixed with --count
GenerateMazesStart_count_seeded ==
    /\ pc = "generate_mazes_command"
    /\ dir_exists' = TRUE
    /\ rng' = RandomState(args.seed + args.count)
    /\ maze_counter' = 0
    /\ mazes_done' = 0
    /\ stdout' = Append(stdout, "Generating")
    /\ pc' = IF 0 < args.count THEN "generate_maze" ELSE "done"
    /\ GenFrame
    /\ UNCHANGED <<npy_files, maze, png_files, self_rooms, grid, strategy, loop_i, loop_n,
                   rooms, stack, visited, block>>

\* lines 430-445: output_dir.mkdir(); generator = BackroomsMazeGenerator(seed)
GenerateMazesStart ==
    /\ pc = "generate_mazes_command"
    /\ dir_exists' = TRUE
    /\ rng' = RandomState(args.seed)
    /\ maze_counter' = 0
    /\ mazes_done' = 0
    /\ stdout' = Append(stdout, "Generating")
    /\ pc' = IF 0 < args.count THEN "generate_maze" ELSE "done"
    /\ GenFrame
    /\ UNCHANGED <<npy_files, maze, png_files, self_rooms, grid, strategy, loop_i, loop_n,
                   rooms, stack, visited, block>>

\* lines 114-132: the fresh grid, the strategy and, for the room strategies,
\* num_rooms and the entry of _generate_varied_rooms
GenerateMaze ==
    /\ pc = "generate_maze"
    /\ grid' = AllWall
    /\ \E u \in StrategyDraw(rng) :
          LET chosen == ChoiceP(u, Strategies, <<20, 70, 100>>)
          IN  /\ strategy' = chosen
              /\ IF chosen = "room_focused"
                 THEN /\ loop_n' = Randint(Raw(rng, 2), 10, 18)
                      /\ rng' = Adv(rng, 2)
                      /\ pc' = "varied_rooms"
                 ELSE IF chosen = "maze_focused"
                 THEN /\ loop_n' = 0
                      /\ rng' = Adv(rng, 1)
                      /\ pc' = "maze_base_start"
                 ELSE /\ loop_n' = Randint(Raw(rng, 2), 6, 12)
                      /\ rng' = Adv(rng, 2)
                      /\ pc' = "varied_rooms"
    /\ loop_i' = 0
    /\ rooms' = << >>
    /\ GenFrame
    /\ UNCHANGED <<dir_exists, npy_files, stdout, maze, png_files, maze_counter, self_rooms,
                   mazes_done, stack, visited, block>>

\* lines 147-168: one room
VariedRoomStep ==
    /\ pc = "varied_rooms"
    /\ loop_i < loop_n
    /\ LET room == VariedRoom(rng)
       IN  /\ grid' = SetCells(grid, SliceCells(room.y, room.height, room.x, room.width), FLOOR)
           /\ rooms' = Append(rooms, <<room.x + room.width \div 2, room.y + room.height \div 2,
                                       room.width, room.height>>)
    /\ rng' = Adv(rng, 5)
    /\ loop_i' = loop_i + 1
    /\ GenFrame
    /\ UNCHANGED <<pc, dir_exists, npy_files, stdout, maze, png_files, maze_counter,
                   self_rooms, strategy, mazes_done, loop_n, stack, visited, block>>

\* the hybrid strategy with a corridor carved between its first two rooms
\* before the fill
VariedRoomsDone_connecting ==
    /\ pc = "varied_rooms"
    /\ loop_i = loop_n
    /\ self_rooms' = rooms
    /\ IF strategy = "room_focused"
       THEN pc' = "connect_rooms" /\ block' = block /\ grid' = grid
       ELSE /\ pc' = "fill"
            /\ block' = 0
            /\ grid' = carve_corridor(grid, rng, rooms[1][1], rooms[1][2],
                                      rooms[2][1], rooms[2][2])
    /\ GenFrame
    /\ UNCHANGED <<dir_exists, npy_files, stdout, maze, png_files, rng, maze_counter,
                   strategy, mazes_done, loop_i, loop_n, rooms, stack, visited>>

\* line 170, then line 122 (room_focused) or line 133 (hybrid)
VariedRoomsDone ==
    /\ pc = "varied_rooms"
    /\ loop_i = loop_n
    /\ self_rooms' = rooms
    /\ IF strategy = "room_focused"
       THEN pc' = "connect_rooms" /\ block' = block
       ELSE pc' = "fill" /\ block' = 0
    /\ GenFrame
    /\ UNCHANGED <<dir_exists, npy_files, stdout, maze, png_files, rng, maze_counter, grid,
                   strategy, mazes_done, loop_i, loop_n, rooms, stack, visited>>

\* lines 174-178: _connect_rooms_naturally returns at once without two rooms
ConnectRoomsEnter ==
    /\ pc = "connect_rooms"
    /\ IF self_rooms = NoRooms \/ Len(self_rooms) < 2
       THEN /\ pc' = "add_corridors"
            /\ loop_n' = (GridSize * GridSize) \div 200
       ELSE /\ pc' = "connect_sequential"
            /\ loop_n' = Len(self_rooms) - 1
    /\ loop_i' = 0
    /\ GenFrame
    /\ UNCHANGED <<dir_exists, npy_files, stdout, maze, png_files, rng, maze_counter,
                   self_rooms, grid, strategy, mazes_done, rooms, stack, visited, block>>

\* lines 178-181: a corridor from room i to room i + 1
ConnectSequential ==
    /\ pc = "connect_sequential"
    /\ loop_i < loop_n
    /\ LET a == self_rooms[loop_i + 1]
           b == self_rooms[loop_i + 2]
       IN  grid' = carve_corridor(grid, rng, a[1], a[2], b[1], b[2])
    /\ rng' = Adv(rng, 2)
    /\ loop_i' = loop_i + 1
    /\ GenFrame
    /\ UNCHANGED <<pc, dir_exists, npy_files, stdout, maze, png_files, maze_counter,
                   self_rooms, strategy, mazes_done, loop_n, rooms, stack, visited, block>>

\* line 184: extra = min(5, len(self.rooms) // 3)
ConnectSequentialDone ==
    /\ pc = "connect_sequential"
    /\ loop_i = loop_n
    /\ loop_i' = 0
    /\ loop_n' = Min(5, Len(self_rooms) \div 3)
    /\ pc' = "connect_extra"
    /\ GenFrame
    /\ UNCHANGED <<dir_exists, npy_files, stdout, maze, png_files, rng, maze_counter,
                   self_rooms, grid, strategy, mazes_done, rooms, stack, visited, block>>

\* lines 185-189: a corridor between two different rooms drawn at random
ConnectExtra ==
    /\ pc = "connect_extra"
    /\ loop_i < loop_n
    /\ LET ij == ChoiceTwo(Raw(rng, 1), Raw(rng, 2), Len(self_rooms))
           a == self_rooms[ij[1] + 1]
           b == self_rooms[ij[2] + 1]
       IN  grid' = carve_corridor(grid, Adv(rng, 2), a[1], a[2], b[1], b[2])
    /\ rng' = Adv(rng, 4)
    /\ loop_i' = loop_i + 1
    /\ GenFrame
    /\ UNCHANGED <<pc, dir_exists, npy_files, stdout, maze, png_files, maze_counter,
                   self_rooms, strategy, mazes_done, loop_n, rooms, stack, visited, block>>

\* lines 123 and 273: num_corridors = int(128 * 128 * density / 20), density 0.1
ConnectExtraDone ==
    /\ pc = "connect_extra"
    /\ loop_i = loop_n
    /\ loop_i' = 0
    /\ loop_n' = (GridSize * GridSize) \div 200
    /\ pc' = "add_corridors"
    /\ GenFrame
    /\ UNCHANGED <<dir_exists, npy_files, stdout, maze, png_files, rng, maze_counter,
                   self_rooms, grid, strategy, mazes_done, rooms, stack, visited, block>>

\* lines 275-281: one random corridor
AddRandomCorridor ==
    /\ pc = "add_corridors"
    /\ loop_i < loop_n
    /\ LET x1 == Randint(Raw(rng, 1), 0, GridSize - 1)
           y1 == Randint(Raw(rng, 2), 0, GridSize - 1)
           x2 == Randint(Raw(rng, 3), 0, GridSize - 1)
           y2 == Randint(Raw(rng, 4), 0, GridSize - 1)
       IN  grid' = carve_corridor(grid, Adv(rng, 4), x1, y1, x2, y2)
    /\ rng' = Adv(rng, 6)
    /\ loop_i' = loop_i + 1
    /\ GenFrame
    /\ UNCHANGED <<pc, dir_exists, npy_files, stdout, maze, png_files, maze_counter,
                   self_rooms, strategy, mazes_done, loop_n, rooms, stack, visited, block>>

\* the room-based strategy returning its grid as carved, without line 136
AddCorridorsDone_skipping ==
    /\ pc = "add_corridors"
    /\ loop_i = loop_n
    /\ pc' = "return_maze"
    /\ GenFrame
    /\ UNCHANGED <<dir_exists, npy_files, stdout, maze, png_files, rng, maze_counter,
                   self_rooms, grid, strategy, mazes_done, loop_i, loop_n, rooms, stack,
                   visited, block>>

\* _add_random_corridors returns; line 136 is next
AddCorridorsDone ==
    /\ pc = "add_corridors"
    /\ loop_i = loop_n
    /\ pc' = "normalize"
    /\ GenFrame
    /\ UNCHANGED <<dir_exists, npy_files, stdout, maze, png_files, rng, maze_counter,
                   self_rooms, grid, strategy, mazes_done, loop_i, loop_n, rooms, stack,
                   visited, block>>

\* lines 228-239: the start cell on the even lattice
MazeBaseStart ==
    /\ pc = "maze_base_start"
    /\ LET start_x == Randint(Raw(rng, 1), 0, GridSize \div 2 - 1) * 2
           start_y == Randint(Raw(rng, 2), 0, GridSize \div 2 - 1) * 2
       IN  /\ stack' = <<<<start_x, start_y>>>>
           /\ visited' = {<<start_x, start_y>>}
           /\ grid' = SetCells(grid, {<<start_y, start_x>>}, FLOOR)
    /\ rng' = Adv(rng, 2)
    /\ pc' = "maze_base"
    /\ GenFrame
    /\ UNCHANGED <<dir_exists, npy_files, stdout, maze, png_files, maze_counter, self_rooms,
                   strategy, mazes_done, loop_i, loop_n, rooms, block>>

\* one turn of the while loop without line 253: the cell between the top and
\* the neighbour stays as it was
MazeBaseStep_no_connector ==
    /\ pc = "maze_base"
    /\ stack # << >>
    /\ LET top == stack[Len(stack)]
           neighbors == Neighbors(top[1], top[2], visited)
       IN  IF neighbors # << >>
           THEN LET n == neighbors[Randint(Raw(rng, 1), 0, Len(neighbors)) + 1]
                IN  /\ grid' = SetCells(grid, {<<n[2], n[1]>>}, FLOOR)
                    /\ visited' = visited \cup {<<n[1], n[2]>>}
                    /\ stack' = Append(stack, <<n[1], n[2]>>)
                    /\ rng' = Adv(rng, 1)
           ELSE /\ stack' = SubSeq(stack, 1, Len(stack) - 1)
                /\ UNCHANGED <<grid, visited, rng>>
    /\ GenFrame
    /\ UNCHANGED <<pc, dir_exists, npy_files, stdout, maze, png_files, maze_counter,
                   self_rooms, strategy, mazes_done, loop_i, loop_n, rooms, block>>

\* lines 241-258: one turn of the while loop: push a neighbour or pop
MazeBaseStep ==
    /\ pc = "maze_base"
    /\ stack # << >>
    /\ LET top == stack[Len(stack)]
           neighbors == Neighbors(top[1], top[2], visited)
       IN  IF neighbors # << >>
           THEN LET n == neighbors[Randint(Raw(rng, 1), 0, Len(neighbors)) + 1]
                IN  /\ grid' = SetCells(grid, {<<n[2], n[1]>>,
                                               <<top[2] + FloorDiv2(n[4]),
                                                 top[1] + FloorDiv2(n[3])>>}, FLOOR)
                    /\ visited' = visited \cup {<<n[1], n[2]>>}
                    /\ stack' = Append(stack, <<n[1], n[2]>>)
                    /\ rng' = Adv(rng, 1)
           ELSE /\ stack' = SubSeq(stack, 1, Len(stack) - 1)
                /\ UNCHANGED <<grid, visited, rng>>
    /\ GenFrame
    /\ UNCHANGED <<pc, dir_exists, npy_files, stdout, maze, png_files, maze_counter,
                   self_rooms, strategy, mazes_done, loop_i, loop_n, rooms, block>>

\* line 128: num_rooms = self.rng.randint(4, 8), drawn after the maze is carved
MazeBaseDone ==
    /\ pc = "maze_base"
    /\ stack = << >>
    /\ loop_i' = 0
    /\ loop_n' = Randint(Raw(rng, 1), 4, 8)
    /\ rng' = Adv(rng, 1)
    /\ pc' = "carve_rooms"
    /\ GenFrame
    /\ UNCHANGED <<dir_exists, npy_files, stdout, maze, png_files, maze_counter, self_rooms,
                   grid, strategy, mazes_done, rooms, stack, visited, block>>

\* lines 262-269: one room carved into the maze
CarveRoomInMaze ==
    /\ pc = "carve_rooms"
    /\ loop_i < loop_n
    /\ LET low == Scaled(5)
           high == Max(Scaled(5) + 1, ScaledUp(15))
           width == Randint(Raw(rng, 1), low, high)
           height == Randint(Raw(rng, 2), low, high)
           rx == Randint(Raw(rng, 3), 2, Max(3, GridSize - width - 2))
           ry == Randint(Raw(rng, 4), 2, Max(3, GridSize - height - 2))
       IN  grid' = SetCells(grid, SliceCells(ry, height, rx, width), FLOOR)
    /\ rng' = Adv(rng, 4)
    /\ loop_i' = loop_i + 1
    /\ GenFrame
    /\ UNCHANGED <<pc, dir_exists, npy_files, stdout, maze, png_files, maze_counter,
                   self_rooms, strategy, mazes_done, loop_n, rooms, stack, visited, block>>

\* _carve_rooms_in_maze returns; line 136 is next
CarveRoomsDone ==
    /\ pc = "carve_rooms"
    /\ loop_i = loop_n
    /\ pc' = "normalize"
    /\ GenFrame
    /\ UNCHANGED <<dir_exists, npy_files, stdout, maze, png_files, rng, maze_counter,
                   self_rooms, grid, strategy, mazes_done, loop_i, loop_n, rooms, stack,
                   visited, block>>

\* lines 285-290: one block; a block that is mostly wall gets a mini maze with
\* probability 0.4 (line 294: the number of its segments)
FillBlock ==
    /\ pc = "fill"
    /\ block < BlocksPerAxis * BlocksPerAxis
    /\ LET by == (block \div BlocksPerAxis) * BlockSize
           bx == (block % BlocksPerAxis) * BlockSize
           region == SliceCells(by, BlockSize, bx, BlockSize)
           floors == Cardinality({c \in region : grid[c] = FLOOR})
       IN  IF floors < ScaledArea(20)
           THEN IF RandomBelow(Raw(rng, 1), 4, 10)
                THEN /\ loop_i' = 0
                     /\ loop_n' = Randint(Raw(rng, 2), 4, 10)
                     /\ rng' = Adv(rng, 2)
                     /\ pc' = "mini_maze"
                     /\ block' = block
                ELSE /\ rng' = Adv(rng, 1)
                     /\ block' = block + 1
                     /\ UNCHANGED <<pc, loop_i, loop_n>>
           ELSE /\ block' = block + 1
                /\ UNCHANGED <<pc, loop_i, loop_n, rng>>
    /\ GenFrame
    /\ UNCHANGED <<dir_exists, npy_files, stdout, maze, png_files, maze_counter, self_rooms,
                   grid, strategy, mazes_done, rooms, stack, visited>>

\* lines 294-306: one segment of the mini maze of the block
MiniMazeSegment ==
    /\ pc = "mini_maze"
    /\ loop_i < loop_n
    /\ LET by == (block \div BlocksPerAxis) * BlockSize
           bx == (block % BlocksPerAxis) * BlockSize
       IN  grid' = SetCells(grid, MiniMazeCells(rng, bx, by, BlockSize, BlockSize), FLOOR)
    /\ rng' = Adv(rng, 4)
    /\ loop_i' = loop_i + 1
    /\ GenFrame
    /\ UNCHANGED <<pc, dir_exists, npy_files, stdout, maze, png_files, maze_counter,
                   self_rooms, strategy, mazes_done, loop_n, rooms, stack, visited, block>>

\* _carve_mini_maze returns: the next block
MiniMazeDone ==
    /\ pc = "mini_maze"
    /\ loop_i = loop_n
    /\ block' = block + 1
    /\ pc' = "fill"
    /\ GenFrame
    /\ UNCHANGED <<dir_exists, npy_files, stdout, maze, png_files, rng, maze_counter,
                   self_rooms, grid, strategy, mazes_done, loop_i, loop_n, rooms, stack,
                   visited>>

\* _fill_empty_areas_with_maze returns; line 136 is next
FillDone ==
    /\ pc = "fill"
    /\ block = BlocksPerAxis * BlocksPerAxis
    /\ pc' = "normalize"
    /\ GenFrame
    /\ UNCHANGED <<dir_exists, npy_files, stdout, maze, png_files, rng, maze_counter,
                   self_rooms, grid, strategy, mazes_done, loop_i, loop_n, rooms, stack,
                   visited, block>>

-----------------------------------------------------------------------------
(* _ensure_floor_percentage_range(grid, min_target=0.68, max_target=0.75) *)

\* total = 128 * 128
Total == GridSize * GridSize

\* current_pct < min_target, for min_target = 0.68
BelowMin(floor_count) == floor_count * 100 < 68 * Total

\* current_pct > 0.72, the upper end named in the comment of line 135
AboveMax_comment(floor_count) == floor_count * 100 > 72 * Total

\* current_pct > max_target, for max_target = 0.75
AboveMax(floor_count) == floor_count * 100 > 75 * Total

\* int((min_target - current_pct) * total), for current_pct below min_target
NeededFloor(floor_count) == (68 * Total - 100 * floor_count) \div 100

\* int((current_pct - max_target) * total), for current_pct above max_target
NeededWall(floor_count) == (100 * floor_count - 75 * Total) \div 100

\* the add branch without the test of the moving index against the grid
ShortCorridorCells_unguarded(s) ==
    LET cx == Randint(Raw(s, 1), 1, GridSize - 2)
        cy == Randint(Raw(s, 2), 1, GridSize - 2)
        length == Randint(Raw(s, 3), 2, 5)
    IN  IF RandomBelow(Raw(s, 4), 1, 2)
        THEN {<<cy, cx + dx>> : dx \in 0 .. length - 1}
        ELSE {<<cy + dy, cx>> : dy \in 0 .. length - 1}

\* lines 319-331: the cells one short corridor writes, for the four values
\* drawn after state s
ShortCorridorCells(s) ==
    LET cx == Randint(Raw(s, 1), 1, GridSize - 2)
        cy == Randint(Raw(s, 2), 1, GridSize - 2)
        length == Randint(Raw(s, 3), 2, 5)
    IN  IF RandomBelow(Raw(s, 4), 1, 2)
        THEN {<<cy, cx + dx>> : dx \in {d \in 0 .. length - 1 : 0 <= cx + d /\ cx + d < GridSize}}
        ELSE {<<cy + dy, cx>> : dy \in {d \in 0 .. length - 1 : 0 <= cy + d /\ cy + d < GridSize}}

\* lines 346-350: the first neighbour, in the order (0,1), (1,0), (0,-1), (-1,0)
\* of (dy, dx), that is inside the grid and FLOOR; the empty set if there is none
FirstFloorNeighbor(g, cy, cx) ==
    LET offsets == <<<<0, 1>>, <<1, 0>>, <<0, -1>>, <<-1, 0>>>>
        Hit(k) == /\ InGrid(cy + offsets[k][1], cx + offsets[k][2])
                  /\ g[cy + offsets[k][1], cx + offsets[k][2]] = FLOOR
        hits == {k \in 1 .. 4 : Hit(k)}
    IN  IF hits = {} THEN {}
        ELSE LET k == CHOOSE k \in hits : \A j \in hits : k <= j
             IN  {<<cy + offsets[k][1], cx + offsets[k][2]>>}

\* a grid whose share of FLOOR cells is the largest that does not exceed
\* max_target: the first cells in row order are FLOOR
BandEdgeGrid ==
    [c \in Cells \X Cells |-> IF (c[1] * GridSize + c[2]) * 100 < 75 * Total
                               THEN FLOOR ELSE WALL]

\* grids handed to _ensure_floor_percentage_range when it is called on its own
InputGrids == {AllWall, AllFloor, BandEdgeGrid} \cup {PoolGrid(k) : k \in 0 .. PoolSize - 1}

\* BackroomsMazeGenerator(seed)._ensure_floor_percentage_range(grid), called on
\* its own with the default targets
InitNormalize ==
    /\ command = "_ensure_floor_percentage_range"
    /\ \E seed \in 0 .. MaxSeed :
          /\ args = [count |-> 0, seed |-> seed, stride |-> 0]
          /\ rng = RandomState(seed)
    /\ grid \in InputGrids
    /\ pc = "normalize"
    /\ dir_exists = FALSE
    /\ npy_files = EmptyDict
    /\ stdout = << >>
    /\ maze = NoMaze
    /\ maze_files = << >>
    /\ file_idx = 0
    /\ tiles = << >>
    /\ tile_id = 0
    /\ x = 0
    /\ y = 0
    /\ all_tiles = << >>
    /\ compatibility = EmptyDict
    /\ output_file = NoFile
    /\ run = 1
    /\ first_run = EmptyDict
    /\ png_files = {}
    /\ maze_counter = 0
    /\ self_rooms = NoRooms
    /\ strategy = ""
    /\ mazes_done = 0
    /\ loop_i = 0
    /\ loop_n = 0
    /\ rooms = << >>
    /\ stack = << >>
    /\ visited = {}
    /\ block = 0
    /\ ScriptsIdle

\* where _ensure_floor_percentage_range returns to: line 138 of generate_maze,
\* or its caller when it was called on its own
NormalizeReturn == IF command = "generate-mazes" THEN "return_maze" ELSE "done"

\* lines 310-316 and 333-335: the floor share is measured and the branch taken
NormalizeEnter ==
    /\ pc = "normalize"
    /\ LET floor_count == FloorCount(grid)
       IN  IF BelowMin(floor_count)
           THEN /\ loop_n' = NeededFloor(floor_count)
                /\ pc' = "normalize_add"
           ELSE IF AboveMax(floor_count)
           THEN /\ loop_n' = NeededWall(floor_count)
                /\ pc' = "normalize_remove"
           ELSE /\ loop_n' = 0
                /\ pc' = NormalizeReturn
    /\ loop_i' = 0
    /\ GenFrame
    /\ UNCHANGED <<dir_exists, npy_files, stdout, maze, png_files, rng, maze_counter,
                   self_rooms, grid, strategy, mazes_done, rooms, stack, visited, block>>

\* the add loop with the floor share measured again after every corridor: the
\* loop ends as soon as the share is no longer below min_target
NormalizeAdd_remeasure ==
    /\ pc = "normalize_add"
    /\ loop_i < loop_n
    /\ grid' = SetCells(grid, ShortCorridorCells(rng), FLOOR)
    /\ rng' = Adv(rng, 4)
    /\ loop_i' = loop_i + 1
    /\ loop_n' = IF BelowMin(FloorCount(grid')) THEN loop_n ELSE loop_i + 1
    /\ GenFrame
    /\ UNCHANGED <<pc, dir_exists, npy_files, stdout, maze, png_files, maze_counter,
                   self_rooms, strategy, mazes_done, rooms, stack, visited, block>>

\* lines 318-331: one short corridor is punched
NormalizeAdd ==
    /\ pc = "normalize_add"
    /\ loop_i < loop_n
    /\ grid' = SetCells(grid, ShortCorridorCells(rng), FLOOR)
    /\ rng' = Adv(rng, 4)
    /\ loop_i' = loop_i + 1
    /\ GenFrame
    /\ UNCHANGED <<pc, dir_exists, npy_files, stdout, maze, png_files, maze_counter,
                   self_rooms, strategy, mazes_done, loop_n, rooms, stack, visited, block>>

\* the remove branch without the break of line 350: every FLOOR neighbour of
\* the sampled cell becomes WALL
NormalizeRemove_no_break ==
    /\ pc = "normalize_remove"
    /\ loop_i < loop_n
    /\ LET cx == Randint(Raw(rng, 1), 1, GridSize - 2)
           cy == Randint(Raw(rng, 2), 1, GridSize - 2)
       IN  IF grid[cy, cx] = FLOOR
           THEN LET walled == SetCells(grid, {<<cy, cx>>}, WALL)
                IN  /\ grid' = IF RandomBelow(Raw(rng, 3), 3, 10)
                               THEN SetCells(walled, {<<cy, cx + 1>>, <<cy + 1, cx>>,
                                                      <<cy, cx - 1>>, <<cy - 1, cx>>}, WALL)
                               ELSE walled
                    /\ rng' = Adv(rng, 3)
           ELSE /\ grid' = grid
                /\ rng' = Adv(rng, 2)
    /\ loop_i' = loop_i + 1
    /\ GenFrame
    /\ UNCHANGED <<pc, dir_exists, npy_files, stdout, maze, png_files, maze_counter,
                   self_rooms, strategy, mazes_done, loop_n, rooms, stack, visited, block>>

\* lines 337-350: a sampled floor cell becomes wall, with probability 0.3
\* together with its first floor neighbour
NormalizeRemove ==
    /\ pc = "normalize_remove"
    /\ loop_i < loop_n
    /\ LET cx == Randint(Raw(rng, 1), 1, GridSize - 2)
           cy == Randint(Raw(rng, 2), 1, GridSize - 2)
       IN  IF grid[cy, cx] = FLOOR
           THEN LET walled == SetCells(grid, {<<cy, cx>>}, WALL)
                IN  /\ grid' = IF RandomBelow(Raw(rng, 3), 3, 10)
                               THEN SetCells(walled, FirstFloorNeighbor(walled, cy, cx), WALL)
                               ELSE walled
                    /\ rng' = Adv(rng, 3)
           ELSE /\ grid' = grid
                /\ rng' = Adv(rng, 2)
    /\ loop_i' = loop_i + 1
    /\ GenFrame
    /\ UNCHANGED <<pc, dir_exists, npy_files, stdout, maze, png_files, maze_counter,
                   self_rooms, strategy, mazes_done, loop_n, rooms, stack, visited, block>>

\* the loop of needed iterations is over: _ensure_floor_percentage_range returns
NormalizeDone ==
    /\ pc \in {"normalize_add", "normalize_remove"}
    /\ loop_i = loop_n
    /\ pc' = NormalizeReturn
    /\ GenFrame
    /\ UNCHANGED <<dir_exists, npy_files, stdout, maze, png_files, rng, maze_counter,
                   self_rooms, grid, strategy, mazes_done, loop_i, loop_n, rooms, stack,
                   visited, block>>

\* generate_maze without line 139: the counter is left where it was
ReturnMaze_no_increment ==
    /\ pc = "return_maze"
    /\ maze' = [name |-> "maze_" \o FormatD(maze_counter, 3), grid |-> grid]
    /\ pc' = "save_maze"
    /\ GenFrame
    /\ UNCHANGED <<dir_exists, npy_files, stdout, png_files, rng, maze_counter, self_rooms,
                   grid, strategy, mazes_done, loop_i, loop_n, rooms, stack, visited, block>>

\* lines 138-141: the maze is named and returned
ReturnMaze ==
    /\ pc = "return_maze"
    /\ maze' = [name |-> "maze_" \o FormatD(maze_counter, 3), grid |-> grid]
    /\ maze_counter' = maze_counter + 1
    /\ pc' = "save_maze"
    /\ GenFrame
    /\ UNCHANGED <<dir_exists, npy_files, stdout, png_files, rng, self_rooms, grid,
                   strategy, mazes_done, loop_i, loop_n, rooms, stack, visited, block>>

\* lines 447-457: {maze.name}.png and {maze.name}.npy are written
SaveMaze ==
    /\ pc = "save_maze"
    /\ png_files' = png_files \cup {maze.name}
    /\ npy_files' = DictSet(npy_files, maze.name, maze.grid)
    /\ mazes_done' = mazes_done + 1
    /\ pc' = IF mazes_done + 1 < args.count THEN "generate_maze" ELSE "done"
    /\ GenFrame
    /\ UNCHANGED <<dir_exists, stdout, maze, rng, maze_counter, self_rooms, grid,
                   strategy, loop_i, loop_n, rooms, stack, visited, block>>

\* generate-mazes is executed a second time with the same --seed and --count,
\* by a new process, into a fresh output directory
RunAgain ==
    /\ pc = "done"
    /\ command = "generate-mazes"
    /\ run = 1
    /\ run' = 2
    /\ first_run' = npy_files
    /\ pc' = "generate_mazes_command"
    /\ dir_exists' = FALSE
    /\ npy_files' = EmptyDict
    /\ png_files' = {}
    /\ stdout' = << >>
    /\ maze' = NoMaze
    /\ rng' = 0
    /\ maze_counter' = 0
    /\ self_rooms' = NoRooms
    /\ grid' = EmptyDict
    /\ strategy' = ""
    /\ mazes_done' = 0
    /\ loop_i' = 0
    /\ loop_n' = 0
    /\ rooms' = << >>
    /\ stack' = << >>
    /\ visited' = {}
    /\ block' = 0
    /\ UNCHANGED <<command, args, tileVars, scriptVars>>

\* generate-mazes is executed a second time with the same --seed and another
\* --count, by a new process, into a fresh output directory
RunWithOtherCount ==
    /\ pc = "done"
    /\ command = "generate-mazes"
    /\ run = 1
    /\ run' = 3
    /\ \E count \in (0 .. MaxCount) \ {args.count} : args' = [args EXCEPT !.count = count]
    /\ first_run' = npy_files
    /\ pc' = "generate_mazes_command"
    /\ dir_exists' = FALSE
    /\ npy_files' = EmptyDict
    /\ png_files' = {}
    /\ stdout' = << >>
    /\ maze' = NoMaze
    /\ rng' = 0
    /\ maze_counter' = 0
    /\ self_rooms' = NoRooms
    /\ grid' = EmptyDict
    /\ strategy' = ""
    /\ mazes_done' = 0
    /\ loop_i' = 0
    /\ loop_n' = 0
    /\ rooms' = << >>
    /\ stack' = << >>
    /\ visited' = {}
    /\ block' = 0
    /\ UNCHANGED <<command, tileVars, scriptVars>>

NextGen ==
    \/ GenerateMazesStart
    \/ GenerateMaze
    \/ VariedRoomStep
    \/ VariedRoomsDone
    \/ ConnectRoomsEnter
    \/ ConnectSequential
    \/ ConnectSequentialDone
    \/ ConnectExtra
    \/ ConnectExtraDone
    \/ AddRandomCorridor
    \/ AddCorridorsDone
    \/ MazeBaseStart
    \/ MazeBaseStep
    \/ MazeBaseDone
    \/ CarveRoomInMaze
    \/ CarveRoomsDone
    \/ FillBlock
    \/ MiniMazeSegment
    \/ MiniMazeDone
    \/ FillDone
    \/ NormalizeEnter
    \/ NormalizeAdd
    \/ NormalizeRemove
    \/ NormalizeDone
    \/ ReturnMaze
    \/ SaveMaze
    \/ RunAgain
    \/ RunWithOtherCount

SpecGen == (InitGen \/ InitNormalize) /\ [][NextGen]_vars

\* generate-mazes run by a process that keeps taking steps until it is done
FairSpecGen == (InitGen \/ InitNormalize) /\ [][NextGen]_vars /\ WF_vars(NextGen)

\* main(): either command
Init == InitGen \/ InitNormalize \/ InitTiles
Next == NextGen \/ NextTiles
Spec == Init /\ [][Next]_vars

-----------------------------------------------------------------------------
(* textures/*/generate.py: the scripts that load an input image *)

MaxAssets == 3      \* entries of ASSETS, and item sprites, that are modelled

\* load_wallpaper (door_closed) and load_carpet (door_open) catch
\* FileNotFoundError
FallbackScripts == {"door_closed", "door_open"}

\* scripts whose Image.open(<base texture>) stands outside any try
UnguardedScripts == {"ceiling_hole", "ceiling_stain", "floor_cardboard", "floor_puddle",
                     "itch_background", "wall_cracked", "wall_hole", "wall_mouldy"}

\* itch_cover: the keys of ASSETS, in the order of the dict
AllCoverAssets == <<"wallpaper", "player", "smiler", "bacteria_spreader",
                    "bacteria_motherload", "almond_water", "baseball_bat", "wheatie_os",
                    "drinking_bird", "shovel", "binoculars", "brass_knuckles",
                    "roman_coin", "trail_mix", "lucky_rabbits_foot", "coachs_whistle">>

CoverAssets == SubSeq(AllCoverAssets, 1, Min(MaxAssets, Len(AllCoverAssets)))

\* itch_banner: the images loaded without a test, in the order of generate_banner
BannerRequired == <<"wallpaper_yellow", "hazmat_suit", "smiler", "bacteria_spreader">>

\* itch_banner: the sprites pasted under "if (...).exists()", in order
AllBannerItems == <<"shovel", "brass_knuckles", "almond_water", "binoculars",
                    "flashlight", "roman_coin", "trail_mix", "lucky_rabbits_foot",
                    "lucky_o_milk", "coachs_whistle", "wheatie_os", "drinking_bird",
                    "antigonous_notebook", "bacteria_motherload">>

BannerItems == SubSeq(AllBannerItems, 1, Min(MaxAssets, Len(AllBannerItems)))

Elements(seq) == {seq[i] : i \in 1 .. Len(seq)}

\* the input images a script reads
ScriptInputs(s) ==
    IF s = "itch_cover" THEN Elements(CoverAssets)
    ELSE IF s = "itch_banner" THEN Elements(BannerRequired) \cup Elements(BannerItems)
    ELSE {"base"}

TextureScripts == FallbackScripts \cup UnguardedScripts \cup {"itch_cover", "itch_banner"}

\* the variables of subsample-tiles while another script runs
TilesIdle ==
    /\ maze_files = << >>
    /\ file_idx = 0
    /\ tiles = << >>
    /\ tile_id = 0
    /\ x = 0
    /\ y = 0
    /\ all_tiles = << >>
    /\ compatibility = EmptyDict
    /\ output_file = NoFile

\* the variables of the web server while another script runs
HttpIdle ==
    /\ raw_requestline = NoRequest
    /\ request_version = ""
    /\ self_command = ""
    /\ code = 0
    /\ headers_buffer = << >>
    /\ wfile = << >>

\* a texture script is started; any of its input images may be missing
InitTextures ==
    /\ script \in TextureScripts
    /\ inputs \in SUBSET ScriptInputs(script)
    /\ pc = "main"
    /\ assets = {}
    /\ base = ""
    /\ asset_idx = 0
    /\ exception = ""
    /\ output_written = FALSE
    /\ stdout = << >>
    /\ command = ""
    /\ args = [count |-> 0, seed |-> 0, stride |-> 0]
    /\ dir_exists = FALSE
    /\ npy_files = EmptyDict
    /\ maze = NoMaze
    /\ TilesIdle
    /\ GenIdle
    /\ run = 0
    /\ HttpIdle
    /\ LineIdle

\* what a step of a texture script leaves alone
TexFrame == UNCHANGED <<command, args, dir_exists, npy_files, maze, tileVars, genVars,
                        httpVars, lineVars, script, inputs>>

\* door_closed lines 52-62, door_open lines 44-63: try Image.open, except
\* FileNotFoundError: warning and procedural base
LoadWithFallback ==
    /\ pc = "main"
    /\ script \in FallbackScripts
    /\ IF "base" \in inputs
       THEN /\ base' = "file"
            /\ assets' = {"base"}
            /\ stdout' = stdout
       ELSE /\ base' = "procedural"
            /\ assets' = assets
            /\ stdout' = Append(stdout, "Warning: not found, using procedural fallback")
    /\ pc' = "paint"
    /\ TexFrame
    /\ UNCHANGED <<asset_idx, exception, output_written>>

\* LoadUnguarded with the handler of the door scripts around Image.open
LoadUnguarded_caught ==
    /\ pc = "main"
    /\ script \in UnguardedScripts
    /\ IF "base" \in inputs
       THEN /\ base' = "file"
            /\ assets' = {"base"}
            /\ stdout' = stdout
       ELSE /\ base' = "procedural"
            /\ assets' = assets
            /\ stdout' = Append(stdout, "Warning: not found, using procedural fallback")
    /\ pc' = "paint"
    /\ TexFrame
    /\ UNCHANGED <<asset_idx, exception, output_written>>

\* e.g. floor_puddle lines 22-28: Image.open(BASE_CARPET_PATH) with no handler;
\* FileNotFoundError leaves main()
LoadUnguarded ==
    /\ pc = "main"
    /\ script \in UnguardedScripts
    /\ IF "base" \in inputs
       THEN /\ base' = "file"
            /\ assets' = {"base"}
            /\ exception' = exception
            /\ pc' = "paint"
       ELSE /\ base' = base
            /\ assets' = assets
            /\ exception' = "FileNotFoundError"
            /\ pc' = "raised"
    /\ TexFrame
    /\ UNCHANGED <<stdout, asset_idx, output_written>>

\* itch_cover lines 234-239: one entry of ASSETS
CoverLoadAsset ==
    /\ pc = "main"
    /\ script = "itch_cover"
    /\ asset_idx < Len(CoverAssets)
    /\ LET name == CoverAssets[asset_idx + 1]
       IN  IF name \in inputs
           THEN /\ assets' = assets \cup {name}
                /\ stdout' = stdout
           ELSE /\ assets' = assets
                /\ stdout' = Append(stdout, "Warning: Missing asset " \o name)
    /\ asset_idx' = asset_idx + 1
    /\ TexFrame
    /\ UNCHANGED <<pc, base, exception, output_written>>

\* itch_cover line 243: wallpaper = assets["wallpaper"]
CoverWallpaper ==
    /\ pc = "main"
    /\ script = "itch_cover"
    /\ asset_idx = Len(CoverAssets)
    /\ IF "wallpaper" \in assets
       THEN /\ base' = "file"
            /\ exception' = exception
            /\ pc' = "paint"
       ELSE /\ base' = base
            /\ exception' = "KeyError"
            /\ pc' = "raised"
    /\ TexFrame
    /\ UNCHANGED <<stdout, assets, asset_idx, output_written>>

\* itch_banner lines 24-37 and 153-155, 170-199: load_image(path) of the
\* wallpaper and of the three sprites pasted without a test
BannerRequiredImage ==
    /\ pc = "main"
    /\ script = "itch_banner"
    /\ asset_idx < Len(BannerRequired)
    /\ LET name == BannerRequired[asset_idx + 1]
       IN  IF name \in inputs
           THEN /\ assets' = assets \cup {name}
                /\ base' = "file"
                /\ asset_idx' = asset_idx + 1
                /\ exception' = exception
                /\ pc' = pc
           ELSE /\ assets' = assets
                /\ base' = base
                /\ asset_idx' = asset_idx
                /\ exception' = "FileNotFoundError"
                /\ pc' = "raised"
    /\ TexFrame
    /\ UNCHANGED <<stdout, output_written>>

\* itch_banner line 206: the item sprites follow
BannerRequiredDone ==
    /\ pc = "main"
    /\ script = "itch_banner"
    /\ asset_idx = Len(BannerRequired)
    /\ asset_idx' = 0
    /\ pc' = "items"
    /\ TexFrame
    /\ UNCHANGED <<stdout, assets, base, exception, output_written>>

\* itch_banner lines 206-250: if (path).exists(): composite_sprite(...)
BannerItem ==
    /\ pc = "items"
    /\ asset_idx < Len(BannerItems)
    /\ LET name == BannerItems[asset_idx + 1]
       IN  assets' = IF name \in inputs THEN assets \cup {name} ELSE assets
    /\ asset_idx' = asset_idx + 1
    /\ TexFrame
    /\ UNCHANGED <<pc, stdout, base, exception, output_written>>

\* itch_banner line 252: the effects follow
BannerItemsDone ==
    /\ pc = "items"
    /\ asset_idx = Len(BannerItems)
    /\ pc' = "paint"
    /\ TexFrame
    /\ UNCHANGED <<stdout, assets, base, asset_idx, exception, output_written>>

\* the painting passes and <image>.save(OUTPUT_PATH), e.g. floor_puddle lines
\* 137-145, door_closed lines 584-642
SaveOutput ==
    /\ pc = "paint"
    /\ output_written' = TRUE
    /\ pc' = "done"
    /\ TexFrame
    /\ UNCHANGED <<stdout, assets, base, asset_idx, exception>>

NextTextures ==
    \/ LoadWithFallback
    \/ LoadUnguarded
    \/ CoverLoadAsset
    \/ CoverWallpaper
    \/ BannerRequiredImage
    \/ BannerRequiredDone
    \/ BannerItem
    \/ BannerItemsDone
    \/ SaveOutput

SpecTextures == InitTextures /\ [][NextTextures]_vars

-----------------------------------------------------------------------------
(* scripts/serve_web.py: ThreadSupportHTTPRequestHandler serving one request. *)
(* The handler overrides end_headers only; request parsing and the responses  *)
(* are those of http.server's SimpleHTTPRequestHandler, which it inherits.    *)

Methods == {"GET", "HEAD", "POST"}

\* what the request target names under build/web
Targets == {"file", "missing", "dir_no_slash", "dir_index", "dir_listing", "not_modified"}

\* the last word of a request line of three or more words; "" for two words
Versions == {"", "HTTP/1.0", "HTTP/1.1", "HTTP/3.0", "FOO/1.1"}

\* the request lines a client may send, and the end of the stream
Requests ==
    [method : Methods, target : Targets, version : Versions, extra : BOOLEAN,
     too_long : BOOLEAN] \cup {NoRequest}

\* len(requestline.split())
WordCount(r) == 2 + (IF r.version # "" THEN 1 ELSE 0) + (IF r.extra THEN 1 ELSE 0)

\* words[-1] of a request line of three or more words
LastWord(r) == IF r.version # "" THEN r.version ELSE "extra"

\* parse_request up to the request headers: the request version it leaves in
\* self.request_version and the error it sends, 0 if none
ParseRequest(r) ==
    LET default == [version |-> "HTTP/0.9", error |-> 0]
    IN  IF WordCount(r) >= 3 /\ LastWord(r) \notin {"HTTP/1.0", "HTTP/1.1", "HTTP/3.0"}
        THEN [default EXCEPT !.error = 400]
        ELSE IF WordCount(r) >= 3 /\ LastWord(r) = "HTTP/3.0"
        THEN [default EXCEPT !.error = 505]
        ELSE LET accepted == IF WordCount(r) >= 3 THEN LastWord(r) ELSE "HTTP/0.9"
             IN  IF WordCount(r) > 3
                 THEN [version |-> accepted, error |-> 400]
                 ELSE IF WordCount(r) = 2 /\ r.method # "GET"
                 THEN [version |-> accepted, error |-> 400]
                 ELSE [version |-> accepted, error |-> 0]

\* send_header(keyword, value): nothing is buffered for an HTTP/0.9 request
SendHeader(buffer, version, line) ==
    IF version # "HTTP/0.9" THEN Append(buffer, line) ELSE buffer

\* send_response_only(code): the status line, under the same condition
StatusLine(status) == "HTTP/1.0 " \o Str(status)

\* send_response(code): status line, Server, Date
SendResponse(buffer, version, status) ==
    SendHeader(SendHeader(SendHeader(buffer, version, StatusLine(status)),
                          version, "Server: SimpleHTTP"),
               version, "Date: now")

\* the last line of a header block
BlankLine == "\r\n"

COOP == "Cross-Origin-Opener-Policy: same-origin"
COEP == "Cross-Origin-Embedder-Policy: require-corp"
CacheControl == "Cache-Control: no-cache, no-store, must-revalidate"

\* a request has arrived at the handler
InitHttp ==
    /\ raw_requestline \in Requests
    /\ pc = "handle_one_request"
    /\ request_version = ""
    /\ self_command = ""
    /\ code = 0
    /\ headers_buffer = << >>
    /\ wfile = << >>
    /\ script = "serve_web"
    /\ inputs = {}
    /\ assets = {}
    /\ base = ""
    /\ asset_idx = 0
    /\ exception = ""
    /\ output_written = FALSE
    /\ stdout = << >>
    /\ command = ""
    /\ args = [count |-> 0, seed |-> 0, stride |-> 0]
    /\ dir_exists = TRUE
    /\ npy_files = EmptyDict
    /\ maze = NoMaze
    /\ TilesIdle
    /\ GenIdle
    /\ run = 0
    /\ LineIdle

\* what a step of the request handler leaves alone
HttpFrame == UNCHANGED <<command, args, dir_exists, npy_files, stdout, maze, tileVars,
                         genVars, texVars, lineVars, raw_requestline>>

\* handle_one_request: the line is read; a line over 65536 bytes is answered
\* with 414, the end of the stream closes the connection
ReadRequestLine ==
    /\ pc = "handle_one_request"
    /\ IF raw_requestline = NoRequest
       THEN /\ pc' = "closed"
            /\ UNCHANGED <<request_version, self_command, code>>
       ELSE IF raw_requestline.too_long
       THEN /\ request_version' = ""
            /\ self_command' = ""
            /\ code' = 414
            /\ pc' = "send_error"
       ELSE /\ pc' = "parse_request"
            /\ UNCHANGED <<request_version, self_command, code>>
    /\ HttpFrame
    /\ UNCHANGED <<headers_buffer, wfile>>

\* parse_request, then the lookup of do_<command> in handle_one_request
ParseAndDispatch ==
    /\ pc = "parse_request"
    /\ LET parsed == ParseRequest(raw_requestline)
       IN  /\ request_version' = parsed.version
           /\ IF parsed.error # 0
              THEN /\ self_command' = "None"
                   /\ code' = parsed.error
                   /\ pc' = "send_error"
              ELSE /\ self_command' = raw_requestline.method
                   /\ IF raw_requestline.method \in {"GET", "HEAD"}
                      THEN code' = code /\ pc' = "send_head"
                      ELSE code' = 501 /\ pc' = "send_error"
    /\ HttpFrame
    /\ UNCHANGED <<headers_buffer, wfile>>

\* SimpleHTTPRequestHandler.send_head, called by do_GET and do_HEAD
SendHead ==
    /\ pc = "send_head"
    /\ LET target == raw_requestline.target
           status == CASE target = "dir_no_slash" -> 301
                       [] target = "not_modified" -> 304
                       [] target = "missing" -> 404
                       [] OTHER -> 200
           started == SendResponse(headers_buffer, request_version, status)
       IN  /\ code' = status
           /\ IF status = 404
              THEN /\ headers_buffer' = headers_buffer
                   /\ pc' = "send_error"
              ELSE /\ headers_buffer' =
                        CASE status = 301 ->
                               SendHeader(SendHeader(started, request_version, "Location: /"),
                                          request_version, "Content-Length: 0")
                          [] status = 304 -> started
                          [] OTHER ->
                               SendHeader(SendHeader(started, request_version,
                                                     "Content-type: guessed"),
                                          request_version, "Content-Length: size")
                   /\ pc' = "end_headers"
    /\ HttpFrame
    /\ UNCHANGED <<request_version, self_command, wfile>>

\* send_error(code) up to its call of end_headers
SendError ==
    /\ pc = "send_error"
    /\ LET started == SendHeader(SendResponse(headers_buffer, request_version, code),
                                 request_version, "Connection: close")
       IN  headers_buffer' =
               SendHeader(SendHeader(started, request_version, "Content-Type: text/html"),
                          request_version, "Content-Length: size")
    /\ pc' = "end_headers"
    /\ HttpFrame
    /\ UNCHANGED <<request_version, self_command, code, wfile>>

\* end_headers with the call of super().end_headers() moved to its first line
EndHeaders_super_first ==
    /\ pc = "end_headers"
    /\ LET late == SendHeader(SendHeader(SendHeader(<< >>, request_version, COOP),
                                         request_version, COEP),
                              request_version, CacheControl)
       IN  IF request_version # "HTTP/0.9"
           THEN /\ wfile' = Append(wfile, [kind |-> "headers",
                                           lines |-> Append(headers_buffer, BlankLine)])
                /\ headers_buffer' = late
           ELSE UNCHANGED <<wfile, headers_buffer>>
    /\ pc' = "body"
    /\ HttpFrame
    /\ UNCHANGED <<request_version, self_command, code>>

\* lines 21-29: ThreadSupportHTTPRequestHandler.end_headers
EndHeaders ==
    /\ pc = "end_headers"
    /\ LET added == SendHeader(SendHeader(SendHeader(headers_buffer, request_version, COOP),
                                          request_version, COEP),
                               request_version, CacheControl)
       IN  IF request_version # "HTTP/0.9"
           THEN /\ wfile' = Append(wfile, [kind |-> "headers",
                                           lines |-> Append(added, BlankLine)])
                /\ headers_buffer' = << >>
           ELSE /\ wfile' = wfile
                /\ headers_buffer' = added
    /\ pc' = "body"
    /\ HttpFrame
    /\ UNCHANGED <<request_version, self_command, code>>

\* what follows end_headers: the error page of send_error unless the command
\* is HEAD, the file or listing of do_GET, nothing after 301 and 304
SendBody ==
    /\ pc = "body"
    /\ LET has_body == IF code \in {301, 304} THEN FALSE
                       ELSE IF code = 200 THEN self_command = "GET"
                       ELSE self_command # "HEAD"
       IN  wfile' = IF has_body THEN Append(wfile, [kind |-> "body", lines |-> << >>])
                    ELSE wfile
    /\ pc' = "done"
    /\ HttpFrame
    /\ UNCHANGED <<request_version, self_command, code, headers_buffer>>

NextHttp ==
    \/ ReadRequestLine
    \/ ParseAndDispatch
    \/ SendHead
    \/ SendError
    \/ EndHeaders
    \/ SendBody

SpecHttp == InitHttp /\ [][NextHttp]_vars

-----------------------------------------------------------------------------
(* textures/backrooms_wallpaper/generate.py: draw_thick_line_wrapped *)

WIDTH == 5      \* width of the image (128 in the program)
HEIGHT == 6     \* height of the image (256 in the program)

\* abs(n)
Abs(n) == IF n < 0 THEN 0 - n ELSE n

\* range(-thickness // 2, thickness // 2 + 1): the unary minus is applied
\* before the floor division
Offsets(thickness) == ((0 - thickness) \div 2) .. (thickness \div 2 + 1) - 1

\* lines 124-129: the pixels assigned for the point (px, py), as [y_coord, x_coord]
ThickPixel(px, py, thickness) ==
    {<<(py + dy_offset) % HEIGHT, (px + dx_offset) % WIDTH>> :
        dy_offset \in Offsets(thickness), dx_offset \in Offsets(thickness)}

\* draw_thick_line_wrapped is called with integer endpoints inside the image
\* or up to one pixel outside it, and a thickness of 1, 2 or 3
InitLine ==
    /\ script = "backrooms_wallpaper"
    /\ pc = "draw_thick_line_wrapped"
    /\ \E px0 \in -1 .. WIDTH, py0 \in -1 .. HEIGHT, px1 \in -1 .. WIDTH, py1 \in -1 .. HEIGHT,
          t \in 1 .. 3 :
          line_call = [NoLine EXCEPT !.x0 = px0, !.y0 = py0, !.x1 = px1, !.y1 = py1,
                                     !.thickness = t]
    /\ img_array = {}
    /\ painted = {}
    /\ inputs = {}
    /\ assets = {}
    /\ base = ""
    /\ asset_idx = 0
    /\ exception = ""
    /\ output_written = FALSE
    /\ stdout = << >>
    /\ command = ""
    /\ args = [count |-> 0, seed |-> 0, stride |-> 0]
    /\ dir_exists = FALSE
    /\ npy_files = EmptyDict
    /\ maze = NoMaze
    /\ TilesIdle
    /\ GenIdle
    /\ run = 0
    /\ HttpIdle

\* what a step of draw_thick_line_wrapped leaves alone
LineFrame == UNCHANGED <<command, args, dir_exists, npy_files, stdout, maze, tileVars,
                         genVars, texVars, httpVars>>

\* the increments without abs(): dx and dy carry the sign of the direction
LineStart_signed ==
    /\ pc = "draw_thick_line_wrapped"
    /\ LET dx == line_call.x1 - line_call.x0
           dy == line_call.y1 - line_call.y0
       IN  line_call' = [line_call EXCEPT
                            !.dx = dx,
                            !.dy = dy,
                            !.sx = IF line_call.x0 < line_call.x1 THEN 1 ELSE -1,
                            !.sy = IF line_call.y0 < line_call.y1 THEN 1 ELSE -1,
                            !.err = dx - dy,
                            !.x = line_call.x0,
                            !.y = line_call.y0]
    /\ pc' = "while"
    /\ UNCHANGED <<img_array, painted>>
    /\ LineFrame

\* lines 114-120: the increments, the error term and the first point
LineStart ==
    /\ pc = "draw_thick_line_wrapped"
    /\ LET dx == Abs(line_call.x1 - line_call.x0)
           dy == Abs(line_call.y1 - line_call.y0)
       IN  line_call' = [line_call EXCEPT
                            !.dx = dx,
                            !.dy = dy,
                            !.sx = IF line_call.x0 < line_call.x1 THEN 1 ELSE -1,
                            !.sy = IF line_call.y0 < line_call.y1 THEN 1 ELSE -1,
                            !.err = dx - dy,
                            !.x = line_call.x0,
                            !.y = line_call.y0]
    /\ pc' = "while"
    /\ UNCHANGED <<img_array, painted>>
    /\ LineFrame

\* lines 122-142: one turn of the while loop: the thick pixel is drawn, then
\* the loop ends at (x1, y1) or the next point is computed
LineStep ==
    /\ pc = "while"
    /\ painted' = ThickPixel(line_call.x, line_call.y, line_call.thickness)
    /\ img_array' = img_array \cup painted'
    /\ IF line_call.x = line_call.x1 /\ line_call.y = line_call.y1
       THEN /\ pc' = "done"
            /\ line_call' = line_call
       ELSE LET e2 == 2 * line_call.err
                step_x == e2 > 0 - line_call.dy
                step_y == e2 < line_call.dx
            IN  /\ line_call' =
                      [line_call EXCEPT
                          !.err = line_call.err - (IF step_x THEN line_call.dy ELSE 0)
                                                + (IF step_y THEN line_call.dx ELSE 0),
                          !.x = IF step_x THEN line_call.x + line_call.sx ELSE line_call.x,
                          !.y = IF step_y THEN line_call.y + line_call.sy ELSE line_call.y]
                /\ pc' = "while"
    /\ LineFrame

NextLine ==
    \/ LineStart
    \/ LineStep

SpecLine == InitLine /\ [][NextLine]_vars

\* draw_thick_line_wrapped run by a process that keeps taking steps
FairSpecLine == InitLine /\ [][NextLine]_vars /\ WF_vars(NextLine)

-----------------------------------------------------------------------------
(* Properties of generate-mazes *)

\* a maze that generate_maze has returned and generate_mazes_command holds
Returned == command = "generate-mazes" /\ pc = "save_maze"

\* C1: every grid returned by generate_maze, whatever the seed and the strategy
\* drawn, has a share of FLOOR cells within [0.68, 0.75] of the whole grid.
C1_FloorBand ==
    Returned =>
        /\ 68 * Total <= 100 * FloorCount(maze.grid)
        /\ 100 * FloorCount(maze.grid) <= 75 * Total

\* C2: a second run of generate-mazes with the same --seed and --count writes,
\* maze by maze, the grids of the first run: every file written so far has the
\* name and the cells of a file of the first run, and when the run is over the
\* two runs have written the same names.
C2_Determinism ==
    run = 2 =>
        /\ \A name \in DOMAIN npy_files :
              /\ name \in DOMAIN first_run
              /\ npy_files[name] = first_run[name]
        /\ pc = "done" => DOMAIN npy_files = DOMAIN first_run

\* the second run is over and has written two mazes that differ from each other
C2_Witness ==
    /\ run = 2
    /\ pc = "done"
    /\ args.count >= 2
    /\ DOMAIN npy_files = {"maze_000", "maze_001"}
    /\ npy_files["maze_000"] /= npy_files["maze_001"]
    /\ FloorCount(npy_files["maze_000"]) > 0

\* the names maze_000, maze_001, ... of the first n mazes
FirstNames(n) == {MazeName(k) : k \in 0 .. n - 1}

\* C11: generate-mazes with --count N calls generate_maze N times and writes N
\* (png, npy) pairs named maze_000, maze_001, ... in generation order:
\* maze_counter starts at 0 and counts the mazes returned, a returned maze
\* carries the number of the mazes returned before it, the files written are
\* those of the mazes saved so far, all under different names, and at the end
\* N mazes were returned and saved.
C11_CountAndNames ==
    command = "generate-mazes" =>
        /\ pc = "generate_mazes_command" => maze_counter = 0
        /\ pc # "generate_mazes_command" =>
              /\ maze_counter = mazes_done + (IF pc = "save_maze" THEN 1 ELSE 0)
              /\ mazes_done <= args.count
              /\ DOMAIN npy_files = FirstNames(mazes_done)
              /\ png_files = FirstNames(mazes_done)
              /\ Cardinality(DOMAIN npy_files) = mazes_done
        /\ pc = "save_maze" => maze.name = MazeName(mazes_done)
        /\ pc = "done" => mazes_done = args.count /\ maze_counter = args.count

\* a run with --count 2 or more is over and its pairs are on disk
C11_Witness ==
    /\ command = "generate-mazes"
    /\ pc = "done"
    /\ args.count >= 2
    /\ mazes_done = args.count
    /\ {"maze_000", "maze_001"} \subseteq DOMAIN npy_files
    /\ {"maze_000", "maze_001"} \subseteq png_files

\* the loop of _ensure_floor_percentage_range has made its last iteration
NormalizeLoopOver == pc \in {"normalize_add", "normalize_remove"} /\ loop_i = loop_n

\* C15: when _ensure_floor_percentage_range found the floor share below
\* min_target, the share is at least min_target once its loop is over, and when
\* it found the share above max_target, the share is at most max_target once
\* its loop is over
C15_BandReachedOnReturn ==
    NormalizeLoopOver =>
        /\ pc = "normalize_add" => ~BelowMin(FloorCount(grid))
        /\ pc = "normalize_remove" => ~AboveMax(FloorCount(grid))

\* C16: once a branch of _ensure_floor_percentage_range is entered, the number
\* of iterations is the one computed from the floor share measured at entry,
\* every step of the loop is one iteration whether or not it changes a cell,
\* and the loop is left exactly when that many iterations were made
C16_ExactlyNeededIterations ==
    [][/\ pc = "normalize" =>
            /\ loop_i' = 0
            /\ BelowMin(FloorCount(grid)) =>
                  /\ pc' = "normalize_add"
                  /\ loop_n' * 100 <= 68 * Total - 100 * FloorCount(grid)
                  /\ (loop_n' + 1) * 100 > 68 * Total - 100 * FloorCount(grid)
            /\ AboveMax(FloorCount(grid)) =>
                  /\ pc' = "normalize_remove"
                  /\ loop_n' * 100 <= 100 * FloorCount(grid) - 75 * Total
                  /\ (loop_n' + 1) * 100 > 100 * FloorCount(grid) - 75 * Total
            /\ (~BelowMin(FloorCount(grid)) /\ ~AboveMax(FloorCount(grid))) =>
                  /\ pc' \notin {"normalize_add", "normalize_remove"}
                  /\ grid' = grid
       /\ pc \in {"normalize_add", "normalize_remove"} =>
            /\ loop_n' = loop_n
            /\ \/ pc' = pc /\ loop_i < loop_n /\ loop_i' = loop_i + 1
               \/ pc' \notin {"normalize_add", "normalize_remove"}
                    /\ loop_i = loop_n /\ loop_i' = loop_i /\ grid' = grid]_vars

\* an add loop of several iterations is over, every iteration made, with the
\* share still below min_target
C16_Witness == NormalizeLoopOver /\ loop_n > 1 /\ BelowMin(FloorCount(grid))

\* the FLOOR cells of g
FloorCells(g) == {c \in Cells \X Cells : g[c] = FLOOR}

\* the cells that share an edge with a cell of region
EdgeNeighbours(region) ==
    UNION {{<<c[1] + 1, c[2]>>, <<c[1] - 1, c[2]>>, <<c[1], c[2] + 1>>, <<c[1], c[2] - 1>>} :
              c \in region}

\* the FLOOR cells of g joined to region by a 4-connected path of FLOOR cells
RECURSIVE FloorRegion(_, _)
FloorRegion(g, region) ==
    LET grown == region \cup {c \in EdgeNeighbours(region) :
                                 InGrid(c[1], c[2]) /\ g[c] = FLOOR}
    IN  IF grown = region THEN region ELSE FloorRegion(g, grown)

\* the cell of a room's centre: rooms hold (centre x, centre y, width, height)
\* and the grid is indexed [y, x]
Centre(room) == <<room[2], room[1]>>

\* a and b are FLOOR and a 4-connected path of FLOOR cells joins them
LinkedByFloor(g, a, b) ==
    /\ g[a] = FLOOR
    /\ g[b] = FLOOR
    /\ b \in FloorRegion(g, {a})

\* the centres of rooms i and i + 1 are linked, for every i
ConsecutiveCentresLinked(g, rs) ==
    \A i \in 1 .. Len(rs) - 1 : LinkedByFloor(g, Centre(rs[i]), Centre(rs[i + 1]))

\* the rectangle of a room, from its centre and size
RoomCells(room) ==
    SliceCells(room[2] - room[4] \div 2, room[4], room[1] - room[3] \div 2, room[3])

\* the hybrid strategy has placed its rooms and the mini-maze fill has not
\* looked at a block yet
HybridBeforeFill == strategy = "hybrid" /\ pc = "fill" /\ block = 0

\* C17 as stated: in the hybrid strategy, after room placement and before the
\* mini-maze fill, every pair of consecutive room centres is linked by a path
\* of FLOOR cells
C17_Original == HybridBeforeFill => ConsecutiveCentresLinked(grid, self_rooms)

\* C17: in the hybrid strategy no connection step runs between room placement
\* and the mini-maze fill: when the fill starts, the FLOOR cells of the grid are
\* exactly the cells of the placed room rectangles
C17_HybridRoomsOnly ==
    HybridBeforeFill =>
        FloorCells(grid) = UNION {RoomCells(self_rooms[i]) : i \in 1 .. Len(self_rooms)}

\* the fill starts with two consecutive rooms that no FLOOR path joins
C17_Witness ==
    /\ HybridBeforeFill
    /\ Len(self_rooms) >= 2
    /\ ~ConsecutiveCentresLinked(grid, self_rooms)

\* the cells of the one-cell-wide L from a to b that runs along a's row first
\* and then along b's column
RowThenColumn(a, b) ==
    {<<a[1], cx>> : cx \in Min(a[2], b[2]) .. Max(a[2], b[2])}
        \cup {<<cy, b[2]>> : cy \in Min(a[1], b[1]) .. Max(a[1], b[1])}

\* the cells of the one-cell-wide L from a to b that runs along a's column
\* first and then along b's row
ColumnThenRow(a, b) ==
    {<<cy, a[2]>> : cy \in Min(a[1], b[1]) .. Max(a[1], b[1])}
        \cup {<<b[1], cx>> : cx \in Min(a[2], b[2]) .. Max(a[2], b[2])}

\* _connect_rooms_naturally has just returned to the room-based strategy
RoomsJustConnected == strategy = "room_focused" /\ pc = "add_corridors" /\ loop_i = 0

\* C18: in the room-based strategy, right after _connect_rooms_naturally, the
\* centres of rooms i and i + 1 are FLOOR, one of the two L-shaped lines between
\* them (both legs and the corner) is FLOOR throughout, a 4-connected path of
\* FLOOR cells joins them, and all room centres lie in one floor region
C18_ConsecutiveRoomsJoined ==
    RoomsJustConnected =>
        /\ \A i \in 1 .. Len(self_rooms) - 1 :
              LET a == Centre(self_rooms[i])
                  b == Centre(self_rooms[i + 1])
              IN  /\ grid[a] = FLOOR
                  /\ grid[b] = FLOOR
                  /\ \/ RowThenColumn(a, b) \subseteq FloorCells(grid)
                     \/ ColumnThenRow(a, b) \subseteq FloorCells(grid)
        /\ ConsecutiveCentresLinked(grid, self_rooms)
        /\ \A i \in 1 .. Len(self_rooms) :
              Centre(self_rooms[i]) \in FloorRegion(grid, {Centre(self_rooms[1])})

\* rooms were connected, among them two consecutive rooms whose rectangles
\* share no cell and whose centres lie on different rows and columns
C18_Witness ==
    /\ RoomsJustConnected
    /\ \E i \in 1 .. Len(self_rooms) - 1 :
          /\ RoomCells(self_rooms[i]) \cap RoomCells(self_rooms[i + 1]) = {}
          /\ self_rooms[i][1] # self_rooms[i + 1][1]
          /\ self_rooms[i][2] # self_rooms[i + 1][2]

\* a cell of the step-2 lattice of _generate_maze_base, as (x, y), inside the grid
LatticeCell(c) == InGrid(c[2], c[1]) /\ c[1] % 2 = 0 /\ c[2] % 2 = 0

\* b lies two cells from a along one axis
TwoAway(a, b) ==
    \/ a[1] = b[1] /\ (b[2] = a[2] + 2 \/ b[2] = a[2] - 2)
    \/ a[2] = b[2] /\ (b[1] = a[1] + 2 \/ b[1] = a[1] - 2)

\* the cell between two lattice cells two apart, as a grid index [y, x]
Between(a, b) == <<(a[2] + b[2]) \div 2, (a[1] + b[1]) \div 2>>

\* one turn of the while loop pushed the cell new
Pushed(new) ==
    /\ stack' = Append(stack, new)
    /\ new \notin visited
    /\ \A k \in 1 .. Len(stack) : stack[k] # new
    /\ LatticeCell(new)
    /\ TwoAway(stack[Len(stack)], new)
    /\ visited' = visited \cup {new}
    /\ grid' = SetCells(grid, {<<new[2], new[1]>>, Between(stack[Len(stack)], new)}, FLOOR)

\* one turn of the while loop popped the top
Popped ==
    /\ stack' = SubSeq(stack, 1, Len(stack) - 1)
    /\ visited' = visited
    /\ grid' = grid

\* C19: every step of the loop of _generate_maze_base either pushes one
\* in-bounds lattice cell that was never visited, two cells from the top,
\* carving it and the cell between, or pops the top; no cell is pushed twice;
\* the loop is left only with an empty stack; and it is always left
C19_BacktrackerTerminates ==
    /\ [][/\ (pc = "maze_base" /\ pc' = "maze_base") =>
                 /\ stack # << >>
                 /\ Popped \/ Pushed(stack'[Len(stack')])
          /\ (pc = "maze_base" /\ pc' # "maze_base") =>
                 /\ stack = << >>
                 /\ stack' = << >>
                 /\ pc' = "carve_rooms"]_vars
    /\ (pc = "maze_base") ~> (pc = "carve_rooms" /\ stack = << >>)

\* the backtracker has returned after visiting every cell of the lattice
C19_Witness ==
    /\ pc = "carve_rooms"
    /\ loop_i = 0
    /\ stack = << >>
    /\ visited = {c \in Cells \X Cells : LatticeCell(c)}

\* generate_maze is between its first line and its return
DuringGenerateMaze ==
    /\ command = "generate-mazes"
    /\ pc \in {"varied_rooms", "connect_rooms", "connect_sequential", "connect_extra",
               "add_corridors", "maze_base_start", "maze_base", "carve_rooms", "fill",
               "mini_maze", "normalize", "normalize_add", "normalize_remove",
               "return_maze"}

\* no carving step of generate_maze has run yet
BeforeFirstCarving ==
    /\ command = "generate-mazes"
    /\ \/ pc = "varied_rooms" /\ loop_i = 0
       \/ pc = "maze_base_start"

\* C20: during generate_maze the grid has a cell for every index of the
\* GridSize x GridSize square and no other, every cell is FLOOR or WALL, and
\* before the first carving step every cell is WALL
C20_GridShapeAndValues ==
    /\ DuringGenerateMaze =>
          /\ DOMAIN grid = Cells \X Cells
          /\ \A c \in DOMAIN grid : grid[c] \in {FLOOR, WALL}
    /\ BeforeFirstCarving => grid = AllWall

\* the normalizer has returned a grid that carving and normalization have both
\* written to
C20_Witness ==
    /\ command = "generate-mazes"
    /\ pc = "return_maze"
    /\ loop_n > 0
    /\ FloorCount(grid) > 0
    /\ FloorCount(grid) < Total

\* the indices [y, x] that the single-cell writes of the next step use, before
\* any clipping by the grid: _carve_corridor and _carve_mini_maze test both
\* indices before they write, the add branch of the normalizer tests the moving
\* index only, _generate_maze_base and the remove branch write untested
WrittenIndices ==
    CASE pc = "connect_sequential" /\ loop_i < loop_n ->
            LET a == self_rooms[loop_i + 1]
                b == self_rooms[loop_i + 2]
            IN  {c \in CorridorCells(rng, a[1], a[2], b[1], b[2]) : InGrid(c[1], c[2])}
      [] pc = "connect_extra" /\ loop_i < loop_n ->
            LET ij == ChoiceTwo(Raw(rng, 1), Raw(rng, 2), Len(self_rooms))
                a == self_rooms[ij[1] + 1]
                b == self_rooms[ij[2] + 1]
            IN  {c \in CorridorCells(Adv(rng, 2), a[1], a[2], b[1], b[2]) :
                    InGrid(c[1], c[2])}
      [] pc = "add_corridors" /\ loop_i < loop_n ->
            {c \in CorridorCells(Adv(rng, 4),
                                 Randint(Raw(rng, 1), 0, GridSize - 1),
                                 Randint(Raw(rng, 2), 0, GridSize - 1),
                                 Randint(Raw(rng, 3), 0, GridSize - 1),
                                 Randint(Raw(rng, 4), 0, GridSize - 1)) : InGrid(c[1], c[2])}
      [] pc = "maze_base_start" ->
            {<<Randint(Raw(rng, 2), 0, GridSize \div 2 - 1) * 2,
               Randint(Raw(rng, 1), 0, GridSize \div 2 - 1) * 2>>}
      [] pc = "maze_base" /\ stack # << >> ->
            LET top == stack[Len(stack)]
                neighbors == Neighbors(top[1], top[2], visited)
            IN  IF neighbors = << >> THEN {}
                ELSE LET n == neighbors[Randint(Raw(rng, 1), 0, Len(neighbors)) + 1]
                     IN  {<<n[2], n[1]>>,
                          <<top[2] + FloorDiv2(n[4]), top[1] + FloorDiv2(n[3])>>}
      [] pc = "mini_maze" /\ loop_i < loop_n ->
            MiniMazeCells(rng, (block % BlocksPerAxis) * BlockSize,
                          (block \div BlocksPerAxis) * BlockSize, BlockSize, BlockSize)
      [] pc = "normalize_add" /\ loop_i < loop_n -> ShortCorridorCells(rng)
      [] pc = "normalize_remove" /\ loop_i < loop_n ->
            LET cx == Randint(Raw(rng, 1), 1, GridSize - 2)
                cy == Randint(Raw(rng, 2), 1, GridSize - 2)
            IN  IF grid[cy, cx] = FLOOR
                THEN {<<cy, cx>>}
                         \cup FirstFloorNeighbor(SetCells(grid, {<<cy, cx>>}, WALL), cy, cx)
                ELSE {}
      [] OTHER -> {}

\* C21: every single-cell write of _carve_corridor, _generate_maze_base,
\* _carve_mini_maze and _ensure_floor_percentage_range uses indices x and y
\* with 0 <= x < GridSize and 0 <= y < GridSize: none is out of range and none
\* is negative
C21_WritesInRange ==
    (command \in {"generate-mazes", "_ensure_floor_percentage_range"}) =>
        \A c \in WrittenIndices : InGrid(c[1], c[2])

\* the add branch is about to write a corridor that the border of the grid cuts
\* short: the guard on the moving index drops at least one cell
C21_Witness ==
    /\ pc = "normalize_add"
    /\ loop_i < loop_n
    /\ Cardinality(ShortCorridorCells(rng)) < Randint(Raw(rng, 3), 2, 5)

\* the rectangle [x, y, width, height] that the next step of
\* _carve_rooms_in_maze carves, for the four values drawn after state s
MazeRoom(s) ==
    LET low == Scaled(5)
        high == Max(Scaled(5) + 1, ScaledUp(15))
        width == Randint(Raw(s, 1), low, high)
        height == Randint(Raw(s, 2), low, high)
    IN  [x |-> Randint(Raw(s, 3), 2, Max(3, GridSize - width - 2)),
         y |-> Randint(Raw(s, 4), 2, Max(3, GridSize - height - 2)),
         width |-> width,
         height |-> height]

\* a rectangle that keeps the margin of two cells from every border
KeepsMargin(room) ==
    /\ room.x >= 2
    /\ room.y >= 2
    /\ room.x + room.width <= GridSize - 2
    /\ room.y + room.height <= GridSize - 2

\* no cell of the outer two rows and columns differs between g and h
BorderUntouched(g, h) ==
    \A c \in Cells \X Cells :
        (c[1] < 2 \/ c[2] < 2 \/ c[1] > GridSize - 3 \/ c[2] > GridSize - 3) => h[c] = g[c]

\* C22: every rectangle carved by _generate_varied_rooms and by
\* _carve_rooms_in_maze has x >= 2, y >= 2, x + width <= GridSize - 2 and
\* y + height <= GridSize - 2, and a room carving step changes no cell of the
\* outer two rows and columns
C22_RoomsKeepMargin ==
    [][/\ (pc = "varied_rooms" /\ loop_i < loop_n) =>
             /\ KeepsMargin(VariedRoom(rng))
             /\ grid' = SetCells(grid, SliceCells(VariedRoom(rng).y, VariedRoom(rng).height,
                                                  VariedRoom(rng).x, VariedRoom(rng).width),
                                 FLOOR)
             /\ BorderUntouched(grid, grid')
       /\ (pc = "carve_rooms" /\ loop_i < loop_n) =>
             /\ KeepsMargin(MazeRoom(rng))
             /\ grid' = SetCells(grid, SliceCells(MazeRoom(rng).y, MazeRoom(rng).height,
                                                  MazeRoom(rng).x, MazeRoom(rng).width),
                                 FLOOR)
             /\ BorderUntouched(grid, grid')]_vars

\* rooms of both kinds were carved by one generator: _carve_rooms_in_maze has
\* carved its rooms into a maze after _generate_varied_rooms had placed the
\* rooms of an earlier maze
C22_Witness ==
    /\ pc = "carve_rooms"
    /\ loop_i = loop_n
    /\ loop_n > 0
    /\ self_rooms # NoRooms
    /\ Len(self_rooms) > 0

\* the carving steps of the three strategies
CarvingSteps ==
    {"varied_rooms", "connect_rooms", "connect_sequential", "connect_extra", "add_corridors",
     "maze_base_start", "maze_base", "carve_rooms", "fill", "mini_maze"}

\* the steps of _ensure_floor_percentage_range
NormalizerSteps == {"normalize", "normalize_add", "normalize_remove"}

\* C23: in every execution of generate_maze the normalizer is entered once:
\* carving leads only to more carving or to the entry of the normalizer, the
\* entry is reached only from the last carving step of a strategy, the
\* normalizer is never entered again and leads only to the naming of the maze,
\* the maze is named only after the normalizer, and from there on the grid is
\* not written
C23_NormalizerOnceAfterCarving ==
    [][command = "generate-mazes" =>
          /\ pc = "generate_maze" => pc' \in CarvingSteps
          /\ pc \in CarvingSteps => pc' \in CarvingSteps \cup {"normalize"}
          /\ pc' = "normalize" =>
                /\ pc \in {"add_corridors", "carve_rooms", "fill"}
                /\ grid' = grid
          /\ pc = "normalize" => pc' \in {"normalize_add", "normalize_remove", "return_maze"}
          /\ pc \in {"normalize_add", "normalize_remove"} => pc' \in {pc, "return_maze"}
          /\ pc' = "return_maze" => pc \in NormalizerSteps
          /\ pc = "return_maze" => pc' = "save_maze" /\ grid' = grid /\ maze'.grid = grid
          /\ pc = "save_maze" => grid' = grid /\ npy_files'[maze.name] = grid]_vars

\* a second maze of one run has gone through the normalizer's loop and is named
C23_Witness ==
    /\ command = "generate-mazes"
    /\ pc = "save_maze"
    /\ mazes_done >= 1
    /\ loop_n > 0
    /\ maze.grid = grid

\* _generate_maze_base has returned and nothing else has written to the grid
MazeBaseReturned == strategy = "maze_focused" /\ pc = "carve_rooms" /\ loop_i = 0

\* the cells [y, x] with both coordinates even, with exactly one coordinate
\* odd, and with both coordinates odd
EvenCells == {c \in Cells \X Cells : c[1] % 2 = 0 /\ c[2] % 2 = 0}
ConnectorCells == {c \in Cells \X Cells : (c[1] + c[2]) % 2 = 1}
OddCells == {c \in Cells \X Cells : c[1] % 2 = 1 /\ c[2] % 2 = 1}

\* the pairs of FLOOR cells of g that share an edge, each counted once
FloorEdges(g) ==
    {<<c, d>> \in FloorCells(g) \X FloorCells(g) :
        \/ d[1] = c[1] /\ d[2] = c[2] + 1
        \/ d[2] = c[2] /\ d[1] = c[1] + 1}

\* C24: when _generate_maze_base returns from an all-WALL grid, every cell with
\* both coordinates even is FLOOR, the FLOOR connector cells are one fewer
\* than the even cells, every cell with both coordinates odd is WALL, and the
\* FLOOR cells form one 4-connected region with one edge fewer than cells,
\* that is a tree spanning the even lattice
C24_SpanningTree ==
    MazeBaseReturned =>
        /\ \A c \in EvenCells : grid[c] = FLOOR
        /\ Cardinality(ConnectorCells \cap FloorCells(grid)) = Cardinality(EvenCells) - 1
        /\ FloorCount(grid) = 2 * Cardinality(EvenCells) - 1
        /\ \A c \in OddCells : grid[c] = WALL
        /\ FloorRegion(grid, {<<0, 0>>}) = FloorCells(grid)
        /\ Cardinality(FloorEdges(grid)) = FloorCount(grid) - 1

\* the backtracker has returned after visiting every even cell and carving
\* connectors between them
C24_Witness ==
    /\ MazeBaseReturned
    /\ stack = << >>
    /\ Cardinality(visited) = Cardinality(EvenCells)
    /\ FloorCount(grid) > Cardinality(EvenCells)

\* the cells whose value differs between g and h
ChangedCells(g, h) == {c \in Cells \X Cells : g[c] # h[c]}

\* C25: an iteration of the below-band branch changes at most 4 cells, all of
\* them from WALL to FLOOR; an iteration of the above-band branch changes at
\* most 2 cells, all of them from FLOOR to WALL, and none when the sampled cell
\* is WALL; so after i iterations the floor count has moved by at most 4 * i,
\* respectively 2 * i, from the count measured at entry, in one direction
C25_BoundedOneWaySteps ==
    /\ [][/\ (pc = "normalize_add" /\ pc' = "normalize_add") =>
                /\ \A c \in ChangedCells(grid, grid') : grid[c] = WALL /\ grid'[c] = FLOOR
                /\ Cardinality(ChangedCells(grid, grid')) <= 4
          /\ (pc = "normalize_remove" /\ pc' = "normalize_remove") =>
                /\ \A c \in ChangedCells(grid, grid') : grid[c] = FLOOR /\ grid'[c] = WALL
                /\ Cardinality(ChangedCells(grid, grid')) <= 2
                /\ grid[Randint(Raw(rng, 2), 1, GridSize - 2),
                        Randint(Raw(rng, 1), 1, GridSize - 2)] = WALL => grid' = grid]_vars
    /\ [](/\ pc = "normalize_add" =>
                /\ 100 * FloorCount(grid) <= 68 * Total - 100 * loop_n + 400 * loop_i
                /\ 100 * FloorCount(grid) + 100 * loop_n + 100 > 68 * Total
          /\ pc = "normalize_remove" =>
                /\ 100 * FloorCount(grid) >= 75 * Total + 100 * loop_n - 200 * loop_i
                /\ 100 * FloorCount(grid) - 100 * loop_n - 100 < 75 * Total)

\* a remove loop is over that walled more cells than it made iterations: one
\* iteration at least walled two cells
C25_Witness ==
    /\ pc = "normalize_remove"
    /\ loop_i = loop_n
    /\ 100 * FloorCount(grid) < 75 * Total + 100 * loop_n - 100 * loop_i

\* the floor share of g lies in [min_target, max_target], bounds included
InBand(g) == 68 * Total <= 100 * FloorCount(g) /\ 100 * FloorCount(g) <= 75 * Total

\* C26: when the floor share of the grid handed to
\* _ensure_floor_percentage_range lies in [0.68, 0.75], bounds included, the
\* call enters neither loop, leaves every cell as it was and draws nothing
\* from the RNG stream
C26_InBandUntouched ==
    [][(pc = "normalize" /\ InBand(grid)) =>
          /\ grid' = grid
          /\ rng' = rng
          /\ pc' = NormalizeReturn]_vars

\* the normalizer has returned from a grid whose floor share is exactly
\* max_target, with the grid and the RNG stream as they were handed in
C26_Witness ==
    /\ command = "_ensure_floor_percentage_range"
    /\ pc = "done"
    /\ 100 * FloorCount(grid) = 75 * Total
    /\ grid = BandEdgeGrid
    /\ rng = RandomState(args.seed)

\* C27: a run of generate-mazes with the same seed and another count writes,
\* for every maze number the two runs share, the name and the grid that the
\* first run wrote under that number; the names written are always the first
\* ones in generation order; and a later generate_maze call leaves every file
\* of an earlier maze, and the maze record it was saved from, as they were
C27_PrefixDeterminism ==
    /\ [](run = 3 =>
             /\ DOMAIN npy_files = FirstNames(mazes_done)
             /\ \A name \in DOMAIN npy_files \cap DOMAIN first_run :
                   npy_files[name] = first_run[name]
             /\ pc = "done" =>
                   \/ DOMAIN npy_files \subseteq DOMAIN first_run
                   \/ DOMAIN first_run \subseteq DOMAIN npy_files)
    /\ [][(command = "generate-mazes" /\ run' = run) =>
             /\ \A name \in DOMAIN npy_files :
                   /\ name \in DOMAIN npy_files'
                   /\ npy_files'[name] = npy_files[name]
             /\ (pc # "return_maze" /\ maze # NoMaze) => maze' = maze]_vars

\* a run with --count 2 is over after a run with --count 1 and the same seed:
\* its first maze is the maze of the first run and its second maze is another
C27_Witness ==
    /\ run = 3
    /\ pc = "done"
    /\ DOMAIN first_run = {"maze_000"}
    /\ DOMAIN npy_files = {"maze_000", "maze_001"}
    /\ npy_files["maze_000"] = first_run["maze_000"]
    /\ npy_files["maze_001"] # first_run["maze_000"]

-----------------------------------------------------------------------------
(* Properties of subsample-tiles *)

Range(seq) == {seq[i] : i \in 1 .. Len(seq)}

Opposite(d) == CASE d = "north" -> "south"
                 [] d = "south" -> "north"
                 [] d = "east" -> "west"
                 [] d = "west" -> "east"

DirectionSet == {"north", "south", "east", "west"}

\* tiles per axis for the stride of this run: floor((128 - 8) / S) + 1
PerAxis == (GridSize - TileSize) \div args.stride + 1

\* every tile record the run holds: being sampled, pooled, exported
HeldTiles == Range(tiles) \cup Range(all_tiles)
             \cup (IF output_file = NoFile THEN {} ELSE Range(output_file.tiles))

\* the compatibility map has been computed from the pool
Computed == pc \in {"export", "done"} /\ all_tiles # << >>

\* C3: subsample_maze_to_tiles returns (floor((GridSize - TileSize) / S) + 1)^2
\* tiles, and the window of every emitted tile lies inside the grid.
C3_TileCount ==
    /\ pc = "return_tiles" => Len(tiles) = PerAxis * PerAxis
    /\ \A t \in Range(tiles) :
          /\ 0 <= t.source_position[1] /\ t.source_position[1] + TileSize <= GridSize
          /\ 0 <= t.source_position[2] /\ t.source_position[2] + TileSize <= GridSize

\* a maze has been sampled with a stride that does not divide GridSize - TileSize
C3_Witness ==
    /\ pc = "return_tiles"
    /\ (GridSize - TileSize) % args.stride # 0
    /\ Len(tiles) > 1

\* C4: the four edge signatures of every tile are the boundary rows and columns
\* of its pattern, and the pattern is the grid window at source_position.
C4_EdgesMatchPattern ==
    \A t \in HeldTiles :
        LET g == npy_files[t.source_maze]
            px == t.source_position[1]
            py == t.source_position[2]
        IN  /\ Len(t.pattern) = TileSize
            /\ \A r \in 1 .. TileSize :
                  /\ Len(t.pattern[r]) = TileSize
                  /\ \A c \in 1 .. TileSize : t.pattern[r][c] = g[py + r - 1, px + c - 1]
            /\ t.edges.north = t.pattern[1]
            /\ t.edges.south = t.pattern[TileSize]
            /\ t.edges.west = [r \in 1 .. TileSize |-> t.pattern[r][1]]
            /\ t.edges.east = [r \in 1 .. TileSize |-> t.pattern[r][TileSize]]

\* a tile whose four edges are pairwise different has been exported
C4_Witness ==
    /\ output_file # NoFile
    /\ \E t \in Range(output_file.tiles) :
          /\ t.source_position[1] > 0 /\ t.source_position[2] > 0
          /\ Cardinality({t.edges[d] : d \in DirectionSet}) = 4

\* C5: B is listed under "A:D" exactly when A is listed under "B:D'", D' the
\* direction opposite to D.
C5_CompatibilitySymmetry ==
    Computed =>
        \A a \in Range(all_tiles), b \in Range(all_tiles), d \in DirectionSet :
            (b.name \in Range(compatibility[a.name \o ":" \o d]))
            <=> (a.name \in Range(compatibility[b.name \o ":" \o Opposite(d)]))

\* two different tiles are compatible one way round and not the other
C5_Witness ==
    /\ Computed
    /\ \E a \in Range(all_tiles), b \in Range(all_tiles) :
          /\ a.name # b.name
          /\ b.name \in Range(compatibility[a.name \o ":north"])
          /\ b.name \notin Range(compatibility[a.name \o ":south"])
          /\ a.name \in Range(compatibility[b.name \o ":south"])

\* C6: B is listed under "A:D" exactly when A's edge on side D equals B's edge
\* on the opposite side, and only names of the pool are listed.
C6_CompatibilityExact ==
    Computed =>
        \A a \in Range(all_tiles), d \in DirectionSet :
            LET listed == Range(compatibility[a.name \o ":" \o d])
            IN  /\ listed \subseteq {b.name : b \in Range(all_tiles)}
                /\ \A b \in Range(all_tiles) :
                      (b.name \in listed) <=> (a.edges[d] = b.edges[Opposite(d)])

\* a list names some tiles of the pool and leaves others out
C6_Witness ==
    /\ Computed
    /\ \E a \in Range(all_tiles), d \in DirectionSet :
          LET listed == Range(compatibility[a.name \o ":" \o d])
          IN  /\ Cardinality(listed) >= 2
              /\ \E b \in Range(all_tiles) : b.name \notin listed

\* C7: the exported tile_count is the length of the tile list, which is
\* M * (floor((GridSize - TileSize) / S) + 1)^2 for M maze files; tile names are
\* pairwise distinct; the compatibility map has one "name:direction" key per
\* tile and direction, 4 * tile_count keys.
C7_ExportCounts ==
    output_file # NoFile =>
        LET ts == output_file.tiles
        IN  /\ output_file.metadata.tile_count = Len(ts)
            /\ Len(ts) = Len(maze_files) * PerAxis * PerAxis
            /\ \A i \in 1 .. Len(ts), j \in 1 .. Len(ts) : i # j => ts[i].name # ts[j].name
            /\ Cardinality(DOMAIN output_file.compatibility) = 4 * Len(ts)
            /\ DOMAIN output_file.compatibility
                  = {t.name \o ":" \o d : t \in Range(ts), d \in DirectionSet}

\* a tileset of several mazes with several tiles each has been exported
C7_Witness ==
    /\ output_file # NoFile
    /\ Len(maze_files) >= 2
    /\ PerAxis >= 2
    /\ output_file.metadata.tile_count = Len(maze_files) * PerAxis * PerAxis

\* four decimal digits of i, for i < 10000
FourDigits(i) == Digit((i \div 1000) % 10) \o Digit((i \div 100) % 10)
                 \o Digit((i \div 10) % 10) \o Digit(i % 10)

\* C8: the i-th tile (from 0) of a maze lies at [(i mod n) * S, (i div n) * S]
\* and is named "{maze.name}_tile_{i:04d}", n the tiles per axis.
C8_RowMajorWindowing ==
    \A i \in 1 .. Len(tiles) :
        /\ tiles[i].source_position =
              <<((i - 1) % PerAxis) * args.stride, ((i - 1) \div PerAxis) * args.stride>>
        /\ i <= 10000 => tiles[i].name = maze.name \o "_tile_" \o FourDigits(i - 1)
        /\ tiles[i].source_maze = maze.name

\* sampling has gone past the first row of windows
C8_Witness ==
    /\ pc = "sample"
    /\ PerAxis >= 2
    /\ Len(tiles) > PerAxis
    /\ y > 0 /\ x > 0

\* position of a tile name in the pool
PoolIndex(name) == CHOOSE i \in 1 .. Len(all_tiles) : all_tiles[i].name = name

\* C9: the names of every compatibility list stand in the order of the pooled
\* tile list, none twice.
C9_StableOrder ==
    Computed =>
        \A k \in DOMAIN compatibility :
            LET listed == compatibility[k]
            IN  \A p \in 1 .. Len(listed), q \in 1 .. Len(listed) :
                    p < q => PoolIndex(listed[p]) < PoolIndex(listed[q])

\* a list of three names from two mazes
C9_Witness ==
    /\ Computed
    /\ \E k \in DOMAIN compatibility :
          /\ Len(compatibility[k]) >= 3
          /\ all_tiles[PoolIndex(compatibility[k][1])].source_maze
                # all_tiles[PoolIndex(compatibility[k][Len(compatibility[k])])].source_maze

\* C10 as stated: when no other tile carries A's edge signature of direction D
\* (on any side), the list under "A:D" is empty.
C10_Original ==
    Computed =>
        \A a \in Range(all_tiles), d \in DirectionSet :
            (\A b \in Range(all_tiles) :
                b.name # a.name => \A e \in DirectionSet : b.edges[e] # a.edges[d])
            => compatibility[a.name \o ":" \o d] = << >>

\* C10 amended: the key "A:D" is always present, and its list is empty exactly
\* when no tile of the pool, A included, carries A's edge signature of
\* direction D on the opposite side.
C10_EmptyWhenUnmatched ==
    Computed =>
        \A a \in Range(all_tiles), d \in DirectionSet :
            /\ (a.name \o ":" \o d) \in DOMAIN compatibility
            /\ (compatibility[a.name \o ":" \o d] = << >>)
               <=> (\A b \in Range(all_tiles) : b.edges[Opposite(d)] # a.edges[d])

\* the map was computed for a pool in which one tile's edge is matched by no
\* tile and another tile's edge is matched by that tile alone
C10_Witness ==
    /\ Computed
    /\ \E a \in Range(all_tiles), d \in DirectionSet :
          /\ \A b \in Range(all_tiles) : b.edges[Opposite(d)] # a.edges[d]
          /\ compatibility[a.name \o ":" \o d] = << >>
    /\ \E a \in Range(all_tiles), d \in DirectionSet :
          compatibility[a.name \o ":" \o d] = <<a.name>>

\* C12: subsample-tiles on a maze directory that does not exist, or that holds
\* no *.npy file, prints an error and returns: it samples no tile, computes no
\* compatibility and neither creates nor changes the output JSON file.
C12_ErrorReturns ==
    (command = "subsample-tiles" /\ (~dir_exists \/ DOMAIN npy_files = {})) =>
        /\ pc \in {"subsample_tiles_command", "done"}
        /\ tiles = << >>
        /\ all_tiles = << >>
        /\ tile_id = 0
        /\ maze = NoMaze
        /\ compatibility = EmptyDict
        /\ output_file = NoFile
        /\ pc = "done" =>
              stdout = IF dir_exists THEN <<"ERROR: No .npy files found">>
                       ELSE <<"ERROR: Maze directory not found">>

\* the command has returned from a directory that exists and holds no maze
C12_Witness ==
    /\ command = "subsample-tiles"
    /\ pc = "done"
    /\ dir_exists
    /\ DOMAIN npy_files = {}
    /\ stdout = <<"ERROR: No .npy files found">>
    /\ output_file = NoFile

\* tile b was cut dx columns and dy rows after tile a
OffsetBy(a, b, dx, dy) ==
    /\ a.source_maze = b.source_maze
    /\ b.source_position[1] = a.source_position[1] + dx
    /\ b.source_position[2] = a.source_position[2] + dy

\* C28: for a stride S smaller than the tile size, two tiles of one maze cut S
\* columns apart agree on the columns they share (columns S .. of the first
\* are columns 0 .. of the second), two tiles cut S rows apart agree on the
\* rows they share, and while a maze is sampled its grid is the grid of its
\* file, which sampling leaves as it was
C28_OverlapConsistency ==
    (command = "subsample-tiles" /\ args.stride < TileSize) =>
        /\ \A i, j \in 1 .. Len(tiles) :
              /\ OffsetBy(tiles[i], tiles[j], args.stride, 0) =>
                    \A r \in 1 .. TileSize, c \in args.stride + 1 .. TileSize :
                        tiles[i].pattern[r][c] = tiles[j].pattern[r][c - args.stride]
              /\ OffsetBy(tiles[i], tiles[j], 0, args.stride) =>
                    \A r \in args.stride + 1 .. TileSize, c \in 1 .. TileSize :
                        tiles[i].pattern[r][c] = tiles[j].pattern[r - args.stride][c]
        /\ pc \in {"sample", "return_tiles"} =>
              /\ maze.name \in DOMAIN npy_files
              /\ maze.grid = npy_files[maze.name]
              /\ \A t \in 1 .. Len(tiles) :
                    tiles[t].pattern = Slice2D(maze.grid, tiles[t].source_position[2],
                                               tiles[t].source_position[2] + TileSize,
                                               tiles[t].source_position[1],
                                               tiles[t].source_position[1] + TileSize)

\* a maze was sampled with an overlapping stride: two of its tiles lie one
\* stride apart in a row, two lie one stride apart in a column, and the two of
\* the row are different patterns
C28_Witness ==
    /\ command = "subsample-tiles"
    /\ args.stride < TileSize
    /\ pc = "return_tiles"
    /\ \E i, j, k \in 1 .. Len(tiles) :
          /\ OffsetBy(tiles[i], tiles[j], args.stride, 0)
          /\ OffsetBy(tiles[i], tiles[k], 0, args.stride)
          /\ tiles[i].pattern # tiles[j].pattern

-----------------------------------------------------------------------------
(* Properties of the texture scripts *)

\* some input image of the running script is missing
InputMissing == script # "" /\ ~(ScriptInputs(script) \subseteq inputs)

\* C13 as stated: in every texture script that loads an input image, a missing
\* input file leads to a printed warning, a procedural fallback and a completed
\* run with the output written, never to a propagated exception.
C13_Original ==
    InputMissing =>
        /\ pc # "raised"
        /\ exception = ""
        /\ pc = "done" => output_written /\ stdout # << >>

\* C13, amended: only door_closed and door_open answer a missing base image
\* with one warning and a procedural base and still write the output. The
\* other scripts that open a base image let FileNotFoundError end the run with
\* nothing printed and nothing written. itch_cover prints one warning per
\* missing asset and leaves the asset out; it writes the output exactly when
\* the wallpaper exists and ends with KeyError when it does not. itch_banner
\* leaves out missing item sprites without a warning and ends with
\* FileNotFoundError when the wallpaper or one of the three fixed sprites is
\* missing.
C13_FallbackOnlyInDoorScripts ==
    /\ script \in FallbackScripts =>
          /\ exception = "" /\ pc # "raised"
          /\ pc = "done" =>
                /\ output_written
                /\ "base" \in inputs => base = "file" /\ stdout = << >>
                /\ "base" \notin inputs => base = "procedural" /\ Len(stdout) = 1
    /\ (script \in UnguardedScripts /\ "base" \notin inputs) =>
          /\ pc \in {"main", "raised"}
          /\ ~output_written /\ stdout = << >> /\ base = ""
          /\ pc = "raised" => exception = "FileNotFoundError"
    /\ (script \in UnguardedScripts /\ "base" \in inputs) =>
          /\ exception = "" /\ stdout = << >>
          /\ pc = "done" => output_written
    /\ script = "itch_cover" =>
          /\ base # "procedural"
          /\ "wallpaper" \notin inputs =>
                /\ ~output_written /\ pc \in {"main", "raised"}
                /\ pc = "raised" =>
                      /\ exception = "KeyError"
                      /\ stdout[1] = "Warning: Missing asset wallpaper"
          /\ "wallpaper" \in inputs =>
                /\ exception = "" /\ pc # "raised"
                /\ pc = "done" =>
                      /\ output_written
                      /\ assets = inputs
                      /\ Len(stdout) = Cardinality(Elements(CoverAssets) \ inputs)
    /\ script = "itch_banner" =>
          /\ stdout = << >> /\ base # "procedural"
          /\ ~(Elements(BannerRequired) \subseteq inputs) =>
                /\ ~output_written /\ pc \in {"main", "raised"}
                /\ pc = "raised" => exception = "FileNotFoundError"
          /\ Elements(BannerRequired) \subseteq inputs =>
                /\ exception = "" /\ pc # "raised"
                /\ pc = "done" => output_written /\ assets = inputs

\* door_closed or door_open has finished without its base image
C13_Witness ==
    /\ script \in FallbackScripts
    /\ "base" \notin inputs
    /\ pc = "done"
    /\ base = "procedural"
    /\ output_written
    /\ Len(stdout) = 1

-----------------------------------------------------------------------------
(* Properties of the web server *)

\* the header blocks written to the client so far
HeaderBlocks == {i \in 1 .. Len(wfile) : wfile[i].kind = "headers"}

\* the block holds both isolation headers, each before the blank line that
\* ends the block
CarriesIsolationHeaders(lines) ==
    /\ Len(lines) > 0
    /\ lines[Len(lines)] = BlankLine
    /\ \E i \in 1 .. Len(lines) - 1 : lines[i] = COOP
    /\ \E j \in 1 .. Len(lines) - 1 : lines[j] = COEP
    /\ \A k \in 1 .. Len(lines) - 1 : lines[k] # BlankLine

\* C14 as stated: every response of the handler, whatever the request path and
\* the status, carries the two isolation headers, sent before the header block
\* is ended.
C14_Original ==
    (script = "serve_web" /\ pc = "done" /\ wfile # << >>) =>
        /\ wfile[1].kind = "headers"
        /\ \A i \in HeaderBlocks : CarriesIsolationHeaders(wfile[i].lines)

\* C14, amended: every header block the handler writes carries the two
\* isolation headers before the blank line that ends it, for every path and
\* status, and nothing is left unflushed; a header block is written for every
\* response unless self.request_version is HTTP/0.9 when the response is sent
\* (a request line of two words, or a request line refused with 400 or 505
\* before its version is accepted): then no header at all is written.
C14_HeadersInEveryHeaderBlock ==
    script = "serve_web" =>
        /\ \A i \in HeaderBlocks :
              /\ CarriesIsolationHeaders(wfile[i].lines)
              /\ i = 1
        /\ (pc \in {"body", "done"} /\ request_version # "HTTP/0.9") =>
              /\ HeaderBlocks = {1}
              /\ headers_buffer = << >>
        /\ request_version = "HTTP/0.9" => HeaderBlocks = {}

\* a 404 has been sent in answer to an HTTP/1.1 request
C14_Witness ==
    /\ script = "serve_web"
    /\ pc = "done"
    /\ code = 404
    /\ request_version = "HTTP/1.1"
    /\ HeaderBlocks = {1}
    /\ CarriesIsolationHeaders(wfile[1].lines)
    /\ Len(wfile) = 2

-----------------------------------------------------------------------------
(* Properties of the wallpaper generator *)

\* the thickness x thickness square of pixels centred on (px, py), for an odd
\* thickness, each coordinate reduced modulo the size of the image
CentredSquare(px, py, thickness) ==
    {<<(py + dy_offset) % HEIGHT, (px + dx_offset) % WIDTH>> :
        dy_offset \in (0 - thickness \div 2) .. thickness \div 2,
        dx_offset \in (0 - thickness \div 2) .. thickness \div 2}

\* C29: for the point it has just drawn, draw_thick_line_wrapped has assigned
\* thickness x thickness pixels, and for an odd thickness (3 in every call of
\* the script) exactly the square centred on the point, wrapped into the image
C29_ThicknessSquare ==
    (script = "backrooms_wallpaper" /\ pc = "done") =>
        /\ Cardinality(painted) = line_call.thickness * line_call.thickness
        /\ line_call.thickness % 2 = 1 =>
              painted = CentredSquare(line_call.x, line_call.y, line_call.thickness)

\* C30: the point of the loop never leaves the rectangle spanned by the two
\* endpoints, every pixel written has 0 <= x_coord < WIDTH and
\* 0 <= y_coord < HEIGHT, the loop is left only at (x1, y1) after drawing it,
\* and every call is left
C30_LineTerminatesInRange ==
    /\ []((script = "backrooms_wallpaper" /\ pc \in {"while", "done"}) =>
             /\ Min(line_call.x0, line_call.x1) <= line_call.x
             /\ line_call.x <= Max(line_call.x0, line_call.x1)
             /\ Min(line_call.y0, line_call.y1) <= line_call.y
             /\ line_call.y <= Max(line_call.y0, line_call.y1)
             /\ \A p \in img_array : 0 <= p[1] /\ p[1] < HEIGHT /\ 0 <= p[2] /\ p[2] < WIDTH
             /\ pc = "done" =>
                   /\ line_call.x = line_call.x1
                   /\ line_call.y = line_call.y1
                   /\ <<line_call.y1 % HEIGHT, line_call.x1 % WIDTH>> \in img_array)
    /\ (script = "backrooms_wallpaper" /\ pc = "draw_thick_line_wrapped") ~> (pc = "done")

\* a line between two endpoints outside the image, running against both axes,
\* has been drawn to its end
C30_Witness ==
    /\ script = "backrooms_wallpaper"
    /\ pc = "done"
    /\ line_call.x0 = WIDTH
    /\ line_call.x1 = -1
    /\ line_call.y0 = -1
    /\ line_call.y1 = HEIGHT
    /\ Cardinality(img_array) > Cardinality(painted)

====
